---- MODULE Spec2Model ----
(***************************************************************************)
(* The manifest generators of loopgpt-backend                              *)
(* (scripts/generate_manifest_v2.py, scripts/generate_manifest_v2_approved.py)*)
(* as a state machine: a process loads one generator module (its TOOLS and *)
(* DEPRECATED_ALIASES globals), runs generate_manifest() statement by      *)
(* statement and, when run as __main__, writes the returned document to    *)
(* manifest_v2.json and prints the three counts.                           *)
(*                                                                         *)
(* A Python dict keyed by data (TOOLS, DEPRECATED_ALIASES, "properties")   *)
(* is a sequence of items [name |-> key, spec |-> value] in insertion      *)
(* order with pairwise distinct keys; a dict of fixed shape (a tool spec,  *)
(* a schema, a manifest entry) is a record.                                *)
(***************************************************************************)
EXTENDS Integers, Sequences, FiniteSets, TLC

\* ------------------------------------------------------------------ bounds
\* Longest registry enumerated besides the two literal registries.
MaxTools == 2
MaxAliases == 2
\* Calls of generate_manifest() one importing process makes.
MaxCalls == 2
\* Consecutive runs of a generator script against the same destination path.
MaxRuns == 2

\* ------------------------------------------- the registries of the scripts
\* generate_manifest_v2.py, lines 8-400: the TOOLS literal, one item per key in
\* insertion order.
TOOLS_v2 ==
  <<
    [name |-> "user_get_profile", spec |-> [ category |-> "User Profile & Goals",
        description |-> "Use when you need to retrieve the active user's diet preferences, allergies, current goals, or profile information. This is a read-only setup tool that provides context for meal planning and tracking.",
        input_schema |-> [ type |-> "object",
          properties |-> <<
            [name |-> "user_id", spec |-> [type |-> "string", description |-> "Unique user identifier"]] >>,
          required |-> <<"user_id">> ] ]],
    [name |-> "user_set_weight_goal", spec |-> [ category |-> "User Profile & Goals",
        description |-> "Use when a user expresses a weight goal such as 'I want to lose 5 kg', 'gain muscle', or 'maintain my current weight'. This sets the active goal used by planning and tracking tools. Call this BEFORE creating meal plans.",
        input_schema |-> [ type |-> "object",
          properties |-> <<
            [name |-> "user_id", spec |-> [type |-> "string", description |-> "Unique user identifier"]],
            [name |-> "target_weight_kg", spec |-> [type |-> "number", description |-> "Target weight in kilograms"]],
            [name |-> "goal_type", spec |-> [type |-> "string", enum |-> <<"loss", "gain", "maintain">>, description |-> "Type of weight goal"]],
            [name |-> "target_date", spec |-> [type |-> "string", description |-> "Optional target date (ISO 8601)"]] >>,
          required |-> <<"user_id", "target_weight_kg", "goal_type">> ] ]],
    [name |-> "user_update_diet_preferences", spec |-> [ category |-> "User Profile & Goals",
        description |-> "Use when the user specifies diet restrictions or macro preferences such as 'I'm vegan', 'no dairy', 'high protein', or 'keto diet'. This updates their nutrition profile and affects future meal plan generation.",
        input_schema |-> [ type |-> "object",
          properties |-> <<
            [name |-> "user_id", spec |-> [type |-> "string", description |-> "Unique user identifier"]],
            [name |-> "diet_tags", spec |-> [type |-> "array", items |-> [type |-> "string"], description |-> "Diet types (vegan, keto, etc.)"]],
            [name |-> "allergies", spec |-> [type |-> "array", items |-> [type |-> "string"], description |-> "Food allergies or exclusions"]] >>,
          required |-> <<"user_id">> ] ]],
    [name |-> "user_get_goals", spec |-> [ category |-> "User Profile & Goals",
        description |-> "Use when you need to retrieve the list of currently active user goals (weight, calories, macros). This is a read-only tool for checking what goals are set.",
        input_schema |-> [ type |-> "object",
          properties |-> <<
            [name |-> "user_id", spec |-> [type |-> "string", description |-> "Unique user identifier"]] >>,
          required |-> <<"user_id">> ] ]],
    [name |-> "user_reset_profile", spec |-> [ category |-> "User Profile & Goals",
        description |-> "Use when the user says 'start over', 'reset everything', or 'clear my profile'. This resets all stored goals and diet preferences so the user can begin fresh.",
        input_schema |-> [ type |-> "object",
          properties |-> <<
            [name |-> "user_id", spec |-> [type |-> "string", description |-> "Unique user identifier"]] >>,
          required |-> <<"user_id">> ] ]],
    [name |-> "plan_create_meal_plan", spec |-> [ category |-> "Meal Planning",
        description |-> "Use when a user asks for a daily or weekly meal plan such as 'Make me a 7-day plan', 'I need a meal plan for this week', or 'Create a diet plan for me'. This generates a complete plan aligned with the user's active goals. Call ONLY AFTER a goal has been set with user_set_weight_goal.",
        input_schema |-> [ type |-> "object",
          properties |-> <<
            [name |-> "user_id", spec |-> [type |-> "string", description |-> "Unique user identifier"]],
            [name |-> "duration_days", spec |-> [type |-> "integer", default |-> 7, description |-> "Number of days (1-30)"]],
            [name |-> "calorie_target", spec |-> [type |-> "number", description |-> "Daily calorie target"]],
            [name |-> "diet", spec |-> [type |-> "string", description |-> "Diet type (vegan, keto, etc.)"]],
            [name |-> "meals_per_day", spec |-> [type |-> "integer", default |-> 3, description |-> "Number of meals per day"]],
            [name |-> "allergies", spec |-> [type |-> "array", items |-> [type |-> "string"], description |-> "Food allergies"]],
            [name |-> "cuisine_preferences", spec |-> [type |-> "array", items |-> [type |-> "string"], description |-> "Preferred cuisines"]] >>,
          required |-> <<"user_id", "calorie_target">> ] ]],
    [name |-> "plan_generate_from_leftovers", spec |-> [ category |-> "Meal Planning",
        description |-> "Use when the user lists ingredients on hand and asks 'What can I make?', 'I have eggs and spinach', or 'Use up my leftovers'. This creates one or more meals from available ingredients using the nutrition database.",
        input_schema |-> [ type |-> "object",
          properties |-> <<
            [name |-> "user_id", spec |-> [type |-> "string", description |-> "Unique user identifier"]],
            [name |-> "ingredients", spec |-> [type |-> "array", items |-> [type |-> "string"], description |-> "Available ingredients"]] >>,
          required |-> <<"user_id", "ingredients">> ] ]],
    [name |-> "plan_random_meal", spec |-> [ category |-> "Meal Planning",
        description |-> "Use when the user asks for a quick meal suggestion such as 'Give me a healthy dinner idea', 'Suggest a breakfast', or 'Random meal for lunch'. This is a lightweight generator for single meal ideas.",
        input_schema |-> [ type |-> "object",
          properties |-> <<
            [name |-> "user_id", spec |-> [type |-> "string", description |-> "Unique user identifier"]],
            [name |-> "meal_type", spec |-> [type |-> "string", enum |-> <<"breakfast", "lunch", "dinner", "snack">>, description |-> "Type of meal"]] >>,
          required |-> <<"user_id", "meal_type">> ] ]],
    [name |-> "plan_customize_meal_plan", spec |-> [ category |-> "Meal Planning",
        description |-> "Use when the user wants to modify an existing plan with feedback such as 'Add more protein', 'Swap dinner 2 for something else', or 'Make it less spicy'. This is a mutation tool that edits active plans.",
        input_schema |-> [ type |-> "object",
          properties |-> <<
            [name |-> "user_id", spec |-> [type |-> "string", description |-> "Unique user identifier"]],
            [name |-> "plan_id", spec |-> [type |-> "string", description |-> "Plan identifier to customize"]],
            [name |-> "instructions", spec |-> [type |-> "string", description |-> "Natural language modification instructions"]] >>,
          required |-> <<"user_id", "plan_id", "instructions">> ] ]],
    [name |-> "plan_get_active_plan", spec |-> [ category |-> "Meal Planning",
        description |-> "Use when you need to fetch the user's current active meal plan for review, reuse, or reference. This is a read-only tool that retrieves stored plans.",
        input_schema |-> [ type |-> "object",
          properties |-> <<
            [name |-> "user_id", spec |-> [type |-> "string", description |-> "Unique user identifier"]],
            [name |-> "plan_id", spec |-> [type |-> "string", description |-> "Optional specific plan ID"]] >>,
          required |-> <<"user_id">> ] ]],
    [name |-> "nutrition_analyze_food", spec |-> [ category |-> "Nutrition Analysis",
        description |-> "Use when the user lists foods or recipes and asks 'What's in this?', 'How many calories?', 'Analyze this smoothie', or 'Nutrition facts for...'. This returns detailed macros and micros per serving using the 1,000-food database.",
        input_schema |-> [ type |-> "object",
          properties |-> <<
            [name |-> "ingredients", spec |-> [type |-> "array", items |-> [type |-> "string"], description |-> "List of ingredients"]],
            [name |-> "quantity", spec |-> [type |-> "number", description |-> "Serving quantity"]],
            [name |-> "unit", spec |-> [type |-> "string", description |-> "Unit of measurement"]] >>,
          required |-> <<"ingredients">> ] ]],
    [name |-> "nutrition_get_macros", spec |-> [ category |-> "Nutrition Analysis",
        description |-> "Use when you need to summarize total macros from an existing plan or tracker entry. This aggregates calories, protein, carbs, and fat from multiple sources.",
        input_schema |-> [ type |-> "object",
          properties |-> <<
            [name |-> "source_id", spec |-> [type |-> "string", description |-> "Plan ID or tracker ID"]],
            [name |-> "source_type", spec |-> [type |-> "string", enum |-> <<"plan", "tracker">>, description |-> "Type of source"]] >>,
          required |-> <<"source_id", "source_type">> ] ]],
    [name |-> "nutrition_compare_foods", spec |-> [ category |-> "Nutrition Analysis",
        description |-> "Use when the user asks to compare two foods such as 'Chicken vs Tofu', 'Which has more protein?', or 'Compare brown rice and quinoa'. This returns nutritional differences side-by-side.",
        input_schema |-> [ type |-> "object",
          properties |-> <<
            [name |-> "food_a", spec |-> [type |-> "string", description |-> "First food name"]],
            [name |-> "food_b", spec |-> [type |-> "string", description |-> "Second food name"]] >>,
          required |-> <<"food_a", "food_b">> ] ]],
    [name |-> "nutrition_get_recommendations", spec |-> [ category |-> "Nutrition Analysis",
        description |-> "Use when the user asks 'What foods are high in iron/protein/fiber?', 'Best sources of vitamin C?', or 'Foods rich in...'. This is a discovery tool that lists foods by nutrient content.",
        input_schema |-> [ type |-> "object",
          properties |-> <<
            [name |-> "nutrient_name", spec |-> [type |-> "string", description |-> "Nutrient to search for (e.g., 'protein', 'iron', 'vitamin C')"]] >>,
          required |-> <<"nutrient_name">> ] ]],
    [name |-> "tracker_log_meal", spec |-> [ category |-> "Tracking & Progress",
        description |-> "Use when the user records a meal or snack manually such as 'I ate oatmeal for breakfast', 'Log my lunch', or 'I had a protein shake'. This creates a tracker entry for adherence monitoring.",
        input_schema |-> [ type |-> "object",
          properties |-> <<
            [name |-> "user_id", spec |-> [type |-> "string", description |-> "Unique user identifier"]],
            [name |-> "meal_name", spec |-> [type |-> "string", description |-> "Name of the meal"]],
            [name |-> "ingredients", spec |-> [type |-> "array", items |-> [type |-> "string"], description |-> "List of ingredients"]],
            [name |-> "time", spec |-> [type |-> "string", description |-> "Time of meal (ISO 8601)"]],
            [name |-> "calories", spec |-> [type |-> "number", description |-> "Optional manual calorie entry"]] >>,
          required |-> <<"user_id", "meal_name">> ] ]],
    [name |-> "tracker_log_weight", spec |-> [ category |-> "Tracking & Progress",
        description |-> "Use when the user provides current weight such as 'I weigh 72 kg today', 'My weight is 160 lbs', or 'Log my weight'. This updates the weight trend used by the feedback loop.",
        input_schema |-> [ type |-> "object",
          properties |-> <<
            [name |-> "user_id", spec |-> [type |-> "string", description |-> "Unique user identifier"]],
            [name |-> "weight_kg", spec |-> [type |-> "number", description |-> "Weight in kilograms"]],
            [name |-> "date", spec |-> [type |-> "string", description |-> "Date of measurement (ISO 8601)"]],
            [name |-> "notes", spec |-> [type |-> "string", description |-> "Optional notes"]] >>,
          required |-> <<"user_id", "weight_kg">> ] ]],
    [name |-> "tracker_get_progress", spec |-> [ category |-> "Tracking & Progress",
        description |-> "Use when you need to retrieve historical weight and macro trends for charts or summaries. This returns time-series data for visualization.",
        input_schema |-> [ type |-> "object",
          properties |-> <<
            [name |-> "user_id", spec |-> [type |-> "string", description |-> "Unique user identifier"]],
            [name |-> "timespan_days", spec |-> [type |-> "integer", description |-> "Number of days to retrieve (7, 30, 90)"]] >>,
          required |-> <<"user_id", "timespan_days">> ] ]],
    [name |-> "tracker_summary", spec |-> [ category |-> "Tracking & Progress",
        description |-> "Use when the user asks 'How am I doing?', 'Show my progress', or 'Weekly summary'. This aggregates macros, adherence, and goal progress for a specified period.",
        input_schema |-> [ type |-> "object",
          properties |-> <<
            [name |-> "user_id", spec |-> [type |-> "string", description |-> "Unique user identifier"]],
            [name |-> "period", spec |-> [type |-> "string", enum |-> <<"day", "week", "month">>, description |-> "Summary period"]] >>,
          required |-> <<"user_id", "period">> ] ]],
    [name |-> "loop_evaluate_plan", spec |-> [ category |-> "Feedback Loop",
        description |-> "Use when the user asks 'Did I follow the plan?', 'How well did I do?', or 'Evaluate my adherence'. This compares the active plan versus actual tracking data to measure compliance.",
        input_schema |-> [ type |-> "object",
          properties |-> <<
            [name |-> "user_id", spec |-> [type |-> "string", description |-> "Unique user identifier"]],
            [name |-> "plan_id", spec |-> [type |-> "string", description |-> "Plan identifier to evaluate"]],
            [name |-> "tracker_range", spec |-> [type |-> "string", description |-> "Date range for tracker data"]] >>,
          required |-> <<"user_id", "plan_id">> ] ]],
    [name |-> "loop_adjust_calories", spec |-> [ category |-> "Feedback Loop",
        description |-> "Use when the user says 'Adjust my meals', 'I didn't lose enough weight', or 'Increase my calories'. This modifies the calorie target or macros for future plans based on results.",
        input_schema |-> [ type |-> "object",
          properties |-> <<
            [name |-> "user_id", spec |-> [type |-> "string", description |-> "Unique user identifier"]],
            [name |-> "adjustment_factor", spec |-> [type |-> "number", description |-> "Multiplier for adjustment (0.9 = -10%, 1.1 = +10%)"]],
            [name |-> "new_target", spec |-> [type |-> "number", description |-> "Optional explicit new calorie target"]] >>,
          required |-> <<"user_id">> ] ]],
    [name |-> "loop_generate_feedback_report", spec |-> [ category |-> "Feedback Loop",
        description |-> "Use when you need to create a summarized AI feedback report for the user such as 'You hit 85% consistency this week'. This generates human-readable narrative feedback.",
        input_schema |-> [ type |-> "object",
          properties |-> <<
            [name |-> "user_id", spec |-> [type |-> "string", description |-> "Unique user identifier"]],
            [name |-> "period", spec |-> [type |-> "string", description |-> "Period to summarize (week, month)"]] >>,
          required |-> <<"user_id", "period">> ] ]],
    [name |-> "loop_predict_outcome", spec |-> [ category |-> "Feedback Loop",
        description |-> "Use when the user asks 'What will I weigh in 2 weeks?', 'Predict my progress', or 'When will I reach my goal?'. This forecasts future progress based on current trend.",
        input_schema |-> [ type |-> "object",
          properties |-> <<
            [name |-> "user_id", spec |-> [type |-> "string", description |-> "Unique user identifier"]],
            [name |-> "days_ahead", spec |-> [type |-> "integer", description |-> "Number of days to forecast"]] >>,
          required |-> <<"user_id", "days_ahead">> ] ]],
    [name |-> "loop_reset_cycle", spec |-> [ category |-> "Feedback Loop",
        description |-> "Use when starting a new evaluation cycle. This resets weekly loop data and begins a fresh feedback period.",
        input_schema |-> [ type |-> "object",
          properties |-> <<
            [name |-> "user_id", spec |-> [type |-> "string", description |-> "Unique user identifier"]] >>,
          required |-> <<"user_id">> ] ]],
    [name |-> "delivery_search_restaurants", spec |-> [ category |-> "Delivery & Integrations",
        description |-> "Use when the user asks for nearby delivery options matching their diet plan such as 'Find vegan restaurants', 'Delivery near me', or 'Where can I order keto food?'. This uses MealMe / DoorDash API.",
        input_schema |-> [ type |-> "object",
          properties |-> <<
            [name |-> "location", spec |-> [type |-> "string", description |-> "Address or coordinates"]],
            [name |-> "diet_tags", spec |-> [ type |-> "array",
                items |-> [type |-> "string"],
                description |-> "Diet filters (vegan, keto, etc.)" ]] >>,
          required |-> <<"location">> ] ]],
    [name |-> "delivery_get_menu", spec |-> [ category |-> "Delivery & Integrations",
        description |-> "Use to fetch the menu for a given restaurant ID. This is a supporting data helper tool.",
        input_schema |-> [ type |-> "object",
          properties |-> <<
            [name |-> "restaurant_id", spec |-> [type |-> "string", description |-> "Restaurant identifier from search"]] >>,
          required |-> <<"restaurant_id">> ] ]],
    [name |-> "delivery_place_order", spec |-> [ category |-> "Delivery & Integrations",
        description |-> "Use when the user says 'Order my lunch', 'Place this order', or 'Checkout'. This places a food order through partner APIs (Premium feature).",
        input_schema |-> [ type |-> "object",
          properties |-> <<
            [name |-> "user_id", spec |-> [type |-> "string", description |-> "Unique user identifier"]],
            [name |-> "restaurant_id", spec |-> [type |-> "string", description |-> "Restaurant identifier"]],
            [name |-> "menu_item_id", spec |-> [type |-> "string", description |-> "Menu item to order"]] >>,
          required |-> <<"user_id", "restaurant_id", "menu_item_id">> ] ]],
    [name |-> "delivery_track_order", spec |-> [ category |-> "Delivery & Integrations",
        description |-> "Use to check delivery status for a previously placed order. This is an optional B2C tool.",
        input_schema |-> [ type |-> "object",
          properties |-> <<
            [name |-> "order_id", spec |-> [type |-> "string", description |-> "Order identifier from place_order"]] >>,
          required |-> <<"order_id">> ] ]],
    [name |-> "sys_get_help", spec |-> [ category |-> "System & Support",
        description |-> "Use when the user asks 'What can you do?', 'List all tools', or 'Help me understand your features'. This provides a developer-facing tool list with usage examples.",
        input_schema |-> [type |-> "object", properties |-> << >>] ]],
    [name |-> "sys_healthcheck", spec |-> [ category |-> "System & Support",
        description |-> "Use for monitoring or debugging. Returns system status, active manifest version, and database checksum.",
        input_schema |-> [type |-> "object", properties |-> << >>] ]],
    [name |-> "sys_debug_tool_choice_log", spec |-> [ category |-> "System & Support",
        description |-> "Use to log tool-selection context for QA and routing accuracy analysis. This is a dev-only tool that tracks which tool was chosen and why.",
        input_schema |-> [ type |-> "object",
          properties |-> <<
            [name |-> "input", spec |-> [type |-> "string", description |-> "User's original query"]],
            [name |-> "chosen_tool", spec |-> [type |-> "string", description |-> "Tool that was selected"]],
            [name |-> "confidence", spec |-> [type |-> "number", description |-> "Confidence score (0-1)"]] >>,
          required |-> <<"input", "chosen_tool">> ] ]] >>

\* generate_manifest_v2.py, lines 403-494: the DEPRECATED_ALIASES literal, one item per key in
\* insertion order.
DEPRECATED_ALIASES_v2 ==
  <<
    [name |-> "tracker_set_goals", spec |-> [redirect_to |-> "user_set_weight_goal", description |-> "[DEPRECATED] Alias for user_set_weight_goal. Use only if legacy code still calls this name. Will be removed in v2.1.0.", category |-> "Deprecated"]],
    [name |-> "tracker_quick_add_calories", spec |-> [redirect_to |-> "tracker_log_meal", description |-> "[DEPRECATED] Alias for tracker_log_meal. Use only if legacy code still calls this name. Will be removed in v2.1.0.", category |-> "Deprecated"]],
    [name |-> "get_weight_prefs", spec |-> [redirect_to |-> "user_get_profile", description |-> "[DEPRECATED] Alias for user_get_profile. Use only if legacy code still calls this name. Will be removed in v2.1.0.", category |-> "Deprecated"]],
    [name |-> "update_weight_prefs", spec |-> [redirect_to |-> "user_update_diet_preferences", description |-> "[DEPRECATED] Alias for user_update_diet_preferences. Use only if legacy code still calls this name. Will be removed in v2.1.0.", category |-> "Deprecated"]],
    [name |-> "generate_week_plan", spec |-> [redirect_to |-> "plan_create_meal_plan", description |-> "[DEPRECATED] Alias for plan_create_meal_plan. Use only if legacy code still calls this name. Will be removed in v2.1.0.", category |-> "Deprecated"]],
    [name |-> "recipes_creative_recipe", spec |-> [redirect_to |-> "plan_generate_from_leftovers", description |-> "[DEPRECATED] Alias for plan_generate_from_leftovers. Use only if legacy code still calls this name. Will be removed in v2.1.0.", category |-> "Deprecated"]],
    [name |-> "log_meal_plan", spec |-> [redirect_to |-> "plan_get_active_plan", description |-> "[DEPRECATED] Alias for plan_get_active_plan. Use only if legacy code still calls this name. Will be removed in v2.1.0.", category |-> "Deprecated"]],
    [name |-> "nutrition_analyze", spec |-> [redirect_to |-> "nutrition_analyze_food", description |-> "[DEPRECATED] Alias for nutrition_analyze_food. Use only if legacy code still calls this name. Will be removed in v2.1.0.", category |-> "Deprecated"]],
    [name |-> "normalize_ingredients", spec |-> [redirect_to |-> "nutrition_get_macros", description |-> "[DEPRECATED] Alias for nutrition_get_macros. Use only if legacy code still calls this name. Will be removed in v2.1.0.", category |-> "Deprecated"]],
    [name |-> "tracker_log_food", spec |-> [redirect_to |-> "tracker_log_meal", description |-> "[DEPRECATED] Alias for tracker_log_meal. Use only if legacy code still calls this name. Will be removed in v2.1.0.", category |-> "Deprecated"]],
    [name |-> "log_weight", spec |-> [redirect_to |-> "tracker_log_weight", description |-> "[DEPRECATED] Alias for tracker_log_weight. Use only if legacy code still calls this name. Will be removed in v2.1.0.", category |-> "Deprecated"]],
    [name |-> "weekly_trend", spec |-> [redirect_to |-> "tracker_get_progress", description |-> "[DEPRECATED] Alias for tracker_get_progress. Use only if legacy code still calls this name. Will be removed in v2.1.0.", category |-> "Deprecated"]],
    [name |-> "tracker_get_daily_summary", spec |-> [redirect_to |-> "tracker_summary", description |-> "[DEPRECATED] Alias for tracker_summary. Use only if legacy code still calls this name. Will be removed in v2.1.0.", category |-> "Deprecated"]],
    [name |-> "evaluate_plan_outcome", spec |-> [redirect_to |-> "loop_evaluate_plan", description |-> "[DEPRECATED] Alias for loop_evaluate_plan. Use only if legacy code still calls this name. Will be removed in v2.1.0.", category |-> "Deprecated"]],
    [name |-> "push_plan_feedback", spec |-> [redirect_to |-> "loop_adjust_calories", description |-> "[DEPRECATED] Alias for loop_adjust_calories. Use only if legacy code still calls this name. Will be removed in v2.1.0.", category |-> "Deprecated"]],
    [name |-> "mealme_search", spec |-> [redirect_to |-> "delivery_search_restaurants", description |-> "[DEPRECATED] Alias for delivery_search_restaurants. Use only if legacy code still calls this name. Will be removed in v2.1.0.", category |-> "Deprecated"]],
    [name |-> "get_delivery_recommendations", spec |-> [redirect_to |-> "delivery_get_menu", description |-> "[DEPRECATED] Alias for delivery_get_menu. Use only if legacy code still calls this name. Will be removed in v2.1.0.", category |-> "Deprecated"]],
    [name |-> "mealme_order_plan", spec |-> [redirect_to |-> "delivery_place_order", description |-> "[DEPRECATED] Alias for delivery_place_order. Use only if legacy code still calls this name. Will be removed in v2.1.0.", category |-> "Deprecated"]] >>

\* generate_manifest_v2_approved.py, lines 8-331: the TOOLS literal, one item per key in
\* insertion order.
TOOLS_v2_approved ==
  <<
    [name |-> "user_get_profile", spec |-> [ category |-> "User Profile & Goals",
        description |-> "Use when you need to retrieve the active user's diet preferences, allergies, current goals, or profile information. This is a read-only setup tool that provides context for meal planning and tracking.",
        input_schema |-> [ type |-> "object",
          properties |-> <<
            [name |-> "user_id", spec |-> [type |-> "string", description |-> "Unique user identifier"]] >>,
          required |-> <<"user_id">> ] ]],
    [name |-> "user_set_weight_goal", spec |-> [ category |-> "User Profile & Goals",
        description |-> "Use when a user expresses a weight goal such as 'I want to lose 5 kg', 'gain muscle', or 'maintain my current weight'. This sets the active goal used by planning and tracking tools. Call this BEFORE creating meal plans.",
        input_schema |-> [ type |-> "object",
          properties |-> <<
            [name |-> "user_id", spec |-> [type |-> "string", description |-> "Unique user identifier"]],
            [name |-> "target_weight_kg", spec |-> [type |-> "number", description |-> "Target weight in kilograms"]],
            [name |-> "goal_type", spec |-> [type |-> "string", enum |-> <<"loss", "gain", "maintain">>, description |-> "Type of weight goal"]],
            [name |-> "target_date", spec |-> [type |-> "string", description |-> "Optional target date (ISO 8601)"]] >>,
          required |-> <<"user_id", "target_weight_kg", "goal_type">> ] ]],
    [name |-> "user_update_diet_preferences", spec |-> [ category |-> "User Profile & Goals",
        description |-> "Use when the user specifies diet restrictions or macro preferences such as 'I'm vegan', 'no dairy', 'high protein', or 'keto diet'. This updates their nutrition profile and affects future meal plan generation.",
        input_schema |-> [ type |-> "object",
          properties |-> <<
            [name |-> "user_id", spec |-> [type |-> "string", description |-> "Unique user identifier"]],
            [name |-> "diet_tags", spec |-> [type |-> "array", items |-> [type |-> "string"], description |-> "Diet types (vegan, keto, etc.)"]],
            [name |-> "allergies", spec |-> [type |-> "array", items |-> [type |-> "string"], description |-> "Food allergies or exclusions"]] >>,
          required |-> <<"user_id">> ] ]],
    [name |-> "plan_create_meal_plan", spec |-> [ category |-> "Meal Planning",
        description |-> "Use when a user asks for a daily or weekly meal plan such as 'Make me a 7-day plan', 'I need a meal plan for this week', or 'Create a diet plan for me'. This generates a complete plan aligned with the user's active goals. Use only after user_set_weight_goal or when an explicit calorie target is provided.",
        input_schema |-> [ type |-> "object",
          properties |-> <<
            [name |-> "user_id", spec |-> [type |-> "string", description |-> "Unique user identifier"]],
            [name |-> "duration_days", spec |-> [type |-> "integer", default |-> 7, description |-> "Number of days (1-30)"]],
            [name |-> "calorie_target", spec |-> [type |-> "number", description |-> "Daily calorie target"]],
            [name |-> "diet", spec |-> [type |-> "string", description |-> "Diet type (vegan, keto, etc.)"]],
            [name |-> "meals_per_day", spec |-> [type |-> "integer", default |-> 3, description |-> "Number of meals per day"]],
            [name |-> "allergies", spec |-> [type |-> "array", items |-> [type |-> "string"], description |-> "Food allergies"]],
            [name |-> "cuisine_preferences", spec |-> [type |-> "array", items |-> [type |-> "string"], description |-> "Preferred cuisines"]] >>,
          required |-> <<"user_id", "calorie_target">> ] ]],
    [name |-> "plan_generate_from_leftovers", spec |-> [ category |-> "Meal Planning",
        description |-> "Use when the user lists ingredients on hand and asks 'What can I make?', 'I have eggs and spinach', or 'Use up my leftovers'. This creates one or more meals from available ingredients using the nutrition database.",
        input_schema |-> [ type |-> "object",
          properties |-> <<
            [name |-> "user_id", spec |-> [type |-> "string", description |-> "Unique user identifier"]],
            [name |-> "ingredients", spec |-> [type |-> "array", items |-> [type |-> "string"], description |-> "Available ingredients"]] >>,
          required |-> <<"user_id", "ingredients">> ] ]],
    [name |-> "plan_random_meal", spec |-> [ category |-> "Meal Planning",
        description |-> "Use when the user asks for a quick meal suggestion such as 'Give me a healthy dinner idea', 'Suggest a breakfast', or 'Random meal for lunch'. This is a lightweight generator for single meal ideas.",
        input_schema |-> [ type |-> "object",
          properties |-> <<
            [name |-> "user_id", spec |-> [type |-> "string", description |-> "Unique user identifier"]],
            [name |-> "meal_type", spec |-> [type |-> "string", enum |-> <<"breakfast", "lunch", "dinner", "snack">>, description |-> "Type of meal"]] >>,
          required |-> <<"user_id", "meal_type">> ] ]],
    [name |-> "plan_get_active_plan", spec |-> [ category |-> "Meal Planning",
        description |-> "Use when you need to fetch the user's current active meal plan for review, reuse, or reference. This is a read-only tool that retrieves stored plans.",
        input_schema |-> [ type |-> "object",
          properties |-> <<
            [name |-> "user_id", spec |-> [type |-> "string", description |-> "Unique user identifier"]],
            [name |-> "plan_id", spec |-> [type |-> "string", description |-> "Optional specific plan ID"]] >>,
          required |-> <<"user_id">> ] ]],
    [name |-> "nutrition_analyze_food", spec |-> [ category |-> "Nutrition Analysis",
        description |-> "Use when the user lists foods or recipes and asks 'What's in this?', 'How many calories?', 'Analyze this smoothie', or 'Nutrition facts for...'. This returns detailed macros and micros per serving using the 1,000-food database.",
        input_schema |-> [ type |-> "object",
          properties |-> <<
            [name |-> "ingredients", spec |-> [type |-> "array", items |-> [type |-> "string"], description |-> "List of ingredients"]],
            [name |-> "quantity", spec |-> [type |-> "number", description |-> "Serving quantity"]],
            [name |-> "unit", spec |-> [type |-> "string", description |-> "Unit of measurement"]] >>,
          required |-> <<"ingredients">> ] ]],
    [name |-> "nutrition_get_macros", spec |-> [ category |-> "Nutrition Analysis",
        description |-> "Use when you need to summarize total macros from an existing plan or tracker entry. This aggregates calories, protein, carbs, and fat from multiple sources.",
        input_schema |-> [ type |-> "object",
          properties |-> <<
            [name |-> "source_id", spec |-> [type |-> "string", description |-> "Plan ID or tracker ID"]],
            [name |-> "source_type", spec |-> [type |-> "string", enum |-> <<"plan", "tracker">>, description |-> "Type of source"]] >>,
          required |-> <<"source_id", "source_type">> ] ]],
    [name |-> "nutrition_compare_foods", spec |-> [ category |-> "Nutrition Analysis",
        description |-> "Use when the user asks to compare two foods such as 'Chicken vs Tofu', 'Which has more protein?', or 'Compare brown rice and quinoa'. This returns nutritional differences side-by-side.",
        input_schema |-> [ type |-> "object",
          properties |-> <<
            [name |-> "food_a", spec |-> [type |-> "string", description |-> "First food name"]],
            [name |-> "food_b", spec |-> [type |-> "string", description |-> "Second food name"]] >>,
          required |-> <<"food_a", "food_b">> ] ]],
    [name |-> "nutrition_get_recommendations", spec |-> [ category |-> "Nutrition Analysis",
        description |-> "Use when the user asks 'What foods are high in iron/protein/fiber?', 'Best sources of vitamin C?', or 'Foods rich in...'. This is a discovery tool that lists foods by nutrient content.",
        input_schema |-> [ type |-> "object",
          properties |-> <<
            [name |-> "nutrient_name", spec |-> [type |-> "string", description |-> "Nutrient to search for (e.g., 'protein', 'iron', 'vitamin C')"]] >>,
          required |-> <<"nutrient_name">> ] ]],
    [name |-> "tracker_log_meal", spec |-> [ category |-> "Tracking & Progress",
        description |-> "Use when the user records a meal or snack manually such as 'I ate oatmeal for breakfast', 'Log my lunch', or 'I had a protein shake'. This creates a tracker entry for adherence monitoring.",
        input_schema |-> [ type |-> "object",
          properties |-> <<
            [name |-> "user_id", spec |-> [type |-> "string", description |-> "Unique user identifier"]],
            [name |-> "meal_name", spec |-> [type |-> "string", description |-> "Name of the meal"]],
            [name |-> "ingredients", spec |-> [type |-> "array", items |-> [type |-> "string"], description |-> "List of ingredients"]],
            [name |-> "time", spec |-> [type |-> "string", description |-> "Time of meal (ISO 8601)"]],
            [name |-> "calories", spec |-> [type |-> "number", description |-> "Optional manual calorie entry"]] >>,
          required |-> <<"user_id", "meal_name">> ] ]],
    [name |-> "tracker_log_weight", spec |-> [ category |-> "Tracking & Progress",
        description |-> "Use when the user provides current weight such as 'I weigh 72 kg today', 'My weight is 160 lbs', or 'Log my weight'. This updates the weight trend used by the feedback loop.",
        input_schema |-> [ type |-> "object",
          properties |-> <<
            [name |-> "user_id", spec |-> [type |-> "string", description |-> "Unique user identifier"]],
            [name |-> "weight_kg", spec |-> [type |-> "number", description |-> "Weight in kilograms"]],
            [name |-> "date", spec |-> [type |-> "string", description |-> "Date of measurement (ISO 8601)"]],
            [name |-> "notes", spec |-> [type |-> "string", description |-> "Optional notes"]] >>,
          required |-> <<"user_id", "weight_kg">> ] ]],
    [name |-> "tracker_get_progress", spec |-> [ category |-> "Tracking & Progress",
        description |-> "Use when you need to retrieve historical weight and macro trends for charts or summaries. This returns time-series data for visualization.",
        input_schema |-> [ type |-> "object",
          properties |-> <<
            [name |-> "user_id", spec |-> [type |-> "string", description |-> "Unique user identifier"]],
            [name |-> "timespan_days", spec |-> [type |-> "integer", description |-> "Number of days to retrieve (7, 30, 90)"]] >>,
          required |-> <<"user_id", "timespan_days">> ] ]],
    [name |-> "tracker_summary", spec |-> [ category |-> "Tracking & Progress",
        description |-> "Use when the user asks 'How am I doing?', 'Show my progress', or 'Weekly summary'. This aggregates macros, adherence, and goal progress for a specified period. Prefer tracker_summary for 'How am I doing?'; use loop_evaluate_plan only when the user mentions comparing plan vs actuals.",
        input_schema |-> [ type |-> "object",
          properties |-> <<
            [name |-> "user_id", spec |-> [type |-> "string", description |-> "Unique user identifier"]],
            [name |-> "period", spec |-> [type |-> "string", enum |-> <<"day", "week", "month">>, description |-> "Summary period"]] >>,
          required |-> <<"user_id", "period">> ] ]],
    [name |-> "loop_evaluate_plan", spec |-> [ category |-> "Feedback Loop",
        description |-> "Use when the user asks 'Did I follow the plan?', 'How well did I do?', or 'Evaluate my adherence'. This compares the active plan versus actual tracking data to measure compliance. Use only when the user mentions comparing plan vs actuals.",
        input_schema |-> [ type |-> "object",
          properties |-> <<
            [name |-> "user_id", spec |-> [type |-> "string", description |-> "Unique user identifier"]],
            [name |-> "plan_id", spec |-> [type |-> "string", description |-> "Plan identifier to evaluate"]],
            [name |-> "tracker_range", spec |-> [type |-> "string", description |-> "Date range for tracker data"]] >>,
          required |-> <<"user_id", "plan_id">> ] ]],
    [name |-> "loop_adjust_calories", spec |-> [ category |-> "Feedback Loop",
        description |-> "Use when the user says 'Adjust my meals', 'I didn't lose enough weight', or 'Increase my calories'. This modifies the calorie target or macros for future plans based on results. Use after loop_evaluate_plan or when the user explicitly asks to change targets.",
        input_schema |-> [ type |-> "object",
          properties |-> <<
            [name |-> "user_id", spec |-> [type |-> "string", description |-> "Unique user identifier"]],
            [name |-> "adjustment_factor", spec |-> [type |-> "number", description |-> "Multiplier for adjustment (0.9 = -10%, 1.1 = +10%)"]],
            [name |-> "new_target", spec |-> [type |-> "number", description |-> "Optional explicit new calorie target"]] >>,
          required |-> <<"user_id">> ] ]],
    [name |-> "loop_predict_outcome", spec |-> [ category |-> "Feedback Loop",
        description |-> "Use when the user asks 'What will I weigh in 2 weeks?', 'Predict my progress', or 'When will I reach my goal?'. This forecasts future progress based on current trend.",
        input_schema |-> [ type |-> "object",
          properties |-> <<
            [name |-> "user_id", spec |-> [type |-> "string", description |-> "Unique user identifier"]],
            [name |-> "days_ahead", spec |-> [type |-> "integer", description |-> "Number of days to forecast"]] >>,
          required |-> <<"user_id", "days_ahead">> ] ]],
    [name |-> "delivery_search_restaurants", spec |-> [ category |-> "Delivery & Integrations",
        description |-> "Use when the user asks for nearby delivery options matching their diet plan such as 'Find vegan restaurants', 'Delivery near me', or 'Where can I order keto food?'. This uses MealMe / DoorDash API.",
        input_schema |-> [ type |-> "object",
          properties |-> <<
            [name |-> "location", spec |-> [type |-> "string", description |-> "Address or coordinates"]],
            [name |-> "diet_tags", spec |-> [ type |-> "array",
                items |-> [type |-> "string"],
                description |-> "Diet filters (vegan, keto, etc.)" ]] >>,
          required |-> <<"location">> ] ]],
    [name |-> "delivery_get_menu", spec |-> [ category |-> "Delivery & Integrations",
        description |-> "Supporting tool. Only call when another tool's output requests a menu fetch. Use to fetch the menu for a given restaurant ID.",
        input_schema |-> [ type |-> "object",
          properties |-> <<
            [name |-> "restaurant_id", spec |-> [type |-> "string", description |-> "Restaurant identifier from search"]] >>,
          required |-> <<"restaurant_id">> ] ]],
    [name |-> "delivery_place_order", spec |-> [ category |-> "Delivery & Integrations",
        description |-> "Use when the user says 'Order my lunch', 'Place this order', or 'Checkout'. This places a food order through partner APIs (Premium feature).",
        input_schema |-> [ type |-> "object",
          properties |-> <<
            [name |-> "user_id", spec |-> [type |-> "string", description |-> "Unique user identifier"]],
            [name |-> "restaurant_id", spec |-> [type |-> "string", description |-> "Restaurant identifier"]],
            [name |-> "menu_item_id", spec |-> [type |-> "string", description |-> "Menu item to order"]] >>,
          required |-> <<"user_id", "restaurant_id", "menu_item_id">> ] ]],
    [name |-> "sys_get_help", spec |-> [ category |-> "System & Support",
        description |-> "Developer-only; do not call in normal user flows. Use when the user asks 'What can you do?', 'List all tools', or 'Help me understand your features'. This provides a developer-facing tool list with usage examples.",
        input_schema |-> [type |-> "object", properties |-> << >>] ]],
    [name |-> "sys_healthcheck", spec |-> [ category |-> "System & Support",
        description |-> "Developer-only; do not call in normal user flows. Use for monitoring or debugging. Returns system status, active manifest version, and database checksum.",
        input_schema |-> [type |-> "object", properties |-> << >>] ]],
    [name |-> "sys_debug_tool_choice_log", spec |-> [ category |-> "System & Support",
        description |-> "Developer-only; do not call in normal user flows. Use to log tool-selection context for QA and routing accuracy analysis. This is a dev-only tool that tracks which tool was chosen and why.",
        input_schema |-> [ type |-> "object",
          properties |-> <<
            [name |-> "input", spec |-> [type |-> "string", description |-> "User's original query"]],
            [name |-> "chosen_tool", spec |-> [type |-> "string", description |-> "Tool that was selected"]],
            [name |-> "confidence", spec |-> [type |-> "number", description |-> "Confidence score (0-1)"]] >>,
          required |-> <<"input", "chosen_tool">> ] ]] >>

\* generate_manifest_v2_approved.py, lines 334-395: the DEPRECATED_ALIASES literal, one item per key in
\* insertion order.
DEPRECATED_ALIASES_v2_approved ==
  <<
    [name |-> "set_weight_goal", spec |-> [redirect_to |-> "user_set_weight_goal", description |-> "[DEPRECATED] Alias for user_set_weight_goal. Use only if legacy code still calls this name. Will be removed in v2.1.0.", category |-> "Deprecated"]],
    [name |-> "tracker_set_goals", spec |-> [redirect_to |-> "user_set_weight_goal", description |-> "[DEPRECATED] Alias for user_set_weight_goal. Use only if legacy code still calls this name. Will be removed in v2.1.0.", category |-> "Deprecated"]],
    [name |-> "get_user_profile", spec |-> [redirect_to |-> "user_get_profile", description |-> "[DEPRECATED] Alias for user_get_profile. Use only if legacy code still calls this name. Will be removed in v2.1.0.", category |-> "Deprecated"]],
    [name |-> "update_diet_preferences", spec |-> [redirect_to |-> "user_update_diet_preferences", description |-> "[DEPRECATED] Alias for user_update_diet_preferences. Use only if legacy code still calls this name. Will be removed in v2.1.0.", category |-> "Deprecated"]],
    [name |-> "create_meal_plan", spec |-> [redirect_to |-> "plan_create_meal_plan", description |-> "[DEPRECATED] Alias for plan_create_meal_plan. Use only if legacy code still calls this name. Will be removed in v2.1.0.", category |-> "Deprecated"]],
    [name |-> "generate_recipes", spec |-> [redirect_to |-> "plan_generate_from_leftovers", description |-> "[DEPRECATED] Alias for plan_generate_from_leftovers. Use only if legacy code still calls this name. Will be removed in v2.1.0.", category |-> "Deprecated"]],
    [name |-> "random_meal", spec |-> [redirect_to |-> "plan_random_meal", description |-> "[DEPRECATED] Alias for plan_random_meal. Use only if legacy code still calls this name. Will be removed in v2.1.0.", category |-> "Deprecated"]],
    [name |-> "nutrition_analyze", spec |-> [redirect_to |-> "nutrition_analyze_food", description |-> "[DEPRECATED] Alias for nutrition_analyze_food. Use only if legacy code still calls this name. Will be removed in v2.1.0.", category |-> "Deprecated"]],
    [name |-> "get_weight_history", spec |-> [redirect_to |-> "tracker_get_progress", description |-> "[DEPRECATED] Alias for tracker_get_progress. Use only if legacy code still calls this name. Will be removed in v2.1.0.", category |-> "Deprecated"]],
    [name |-> "get_weight_trend", spec |-> [redirect_to |-> "tracker_get_progress", description |-> "[DEPRECATED] Alias for tracker_get_progress. Use only if legacy code still calls this name. Will be removed in v2.1.0.", category |-> "Deprecated"]],
    [name |-> "order_meal_delivery", spec |-> [redirect_to |-> "delivery_place_order", description |-> "[DEPRECATED] Alias for delivery_place_order. Use only if legacy code still calls this name. Will be removed in v2.1.0.", category |-> "Deprecated"]],
    [name |-> "mealme_search", spec |-> [redirect_to |-> "delivery_search_restaurants", description |-> "[DEPRECATED] Alias for delivery_search_restaurants. Use only if legacy code still calls this name. Will be removed in v2.1.0.", category |-> "Deprecated"]] >>
\* --------------------------------------------------- registries in general
\* The two generator scripts, and "generate_manifest_any": the same code over
\* other TOOLS / DEPRECATED_ALIASES literals (the registries of the scenarios:
\* active "a", alias "legacy_a" -> "a", alias "x" -> "nonexistent", alias "a",
\* a schema whose "required" names a parameter that "properties" lacks).
Scripts == {"generate_manifest_v2", "generate_manifest_v2_approved"}

ToolNames == {"a", "b"}
AliasNames == {"legacy_a", "x", "a"}
RedirectTargets == {"a", "nonexistent"}

ToolSpecs ==
  { [ category |-> "User Profile & Goals",
      description |-> "Use when you need to retrieve the profile.",
      input_schema |-> [ type |-> "object",
        properties |-> <<
          [name |-> "user_id", spec |-> [type |-> "string", description |-> "Unique user identifier"]] >>,
        required |-> <<"user_id">> ] ],
    [ category |-> "System & Support",
      description |-> "Use when the user asks for help.",
      input_schema |-> [type |-> "object", properties |-> << >>] ],
    [ category |-> "Meal Planning",
      description |-> "Use when a user asks for a meal plan.",
      input_schema |-> [ type |-> "object",
        properties |-> <<
          [name |-> "user_id", spec |-> [type |-> "string", description |-> "Unique user identifier"]] >>,
        required |-> <<"user_id", "calorie_target">> ] ] }

AliasSpecs ==
  { [ redirect_to |-> r,
      description |-> "[DEPRECATED] Use only if legacy code still calls this name.",
      category |-> "Deprecated" ] : r \in RedirectTargets }

\* dict.keys(): the keys of a dict in insertion order.
Keys(d) == [j \in 1..Len(d) |-> d[j].name]

\* A dict holds each key once.
IsDict(d) == \A j, k \in 1..Len(d) : d[j].name = d[k].name => j = k

\* The dicts of at most n items with keys in names and values in specs.
Dicts(names, specs, n) ==
  { d \in UNION { [1..k -> [name : names, spec : specs]] : k \in 0..n } : IsDict(d) }

\* key in d
Has(d, key) == \E j \in 1..Len(d) : d[j].name = key

\* The module globals a process has after loading a generator module.
Modules ==
  { [script |-> "generate_manifest_v2",
     TOOLS |-> TOOLS_v2, DEPRECATED_ALIASES |-> DEPRECATED_ALIASES_v2],
    [script |-> "generate_manifest_v2_approved",
     TOOLS |-> TOOLS_v2_approved, DEPRECATED_ALIASES |-> DEPRECATED_ALIASES_v2_approved] }
  \cup
  { [script |-> "generate_manifest_any", TOOLS |-> T, DEPRECATED_ALIASES |-> A] :
      T \in Dicts(ToolNames, ToolSpecs, MaxTools),
      A \in Dicts(AliasNames, AliasSpecs, MaxAliases) }

\* ------------------------------------------------------------------- state
VARIABLES
  script,              \* the generator module this process runs
  mode,                \* "main": run as a script; "import": imported by a caller
  TOOLS,               \* module global TOOLS
  DEPRECATED_ALIASES,  \* module global DEPRECATED_ALIASES
  pc,                  \* the statement the process is at
  stack,               \* the frames of generate_manifest(): its locals
  returned,            \* log of the calls that returned: the run, the script,
                       \* the registries read and the manifest returned; the
                       \* last one of this run is the manifest of __main__
  file,                \* manifest_v2.json on disk
  fileAtStart,         \* manifest_v2.json as the process found it
  f,                   \* the file object of the with block
  pending,             \* the chunks json.dump has still to write
  printed,             \* the counts the script printed
  status,              \* "running" or the exit status of the process
  runs,                \* the processes run so far against the destination path
  locals,              \* the variables of a migration script (deploy_migration.py,
                       \* run_migrations.py)
  ran,                 \* log of what a migration script did outside the process:
                       \* files read, subprocesses run, HTTP requests sent
  out,                 \* the messages a migration script printed
  procs,               \* two generator processes that run at the same time
  closers              \* the order in which those processes closed the file

\* The state of one generator process, of a migration script, and of
\* concurrent generator processes.
genVars == << script, mode, TOOLS, DEPRECATED_ALIASES, stack, returned,
              fileAtStart, f, pending, printed, runs >>
opsVars == << locals, ran, out >>
concVars == << procs, closers >>

vars == << genVars, pc, status, file, opsVars, concVars >>

\* No migration script and no concurrent generator is part of the run.
NoLocals == [script |-> "none"]
OpsIdle == locals = NoLocals /\ ran = << >> /\ out = << >>
ConcIdle == procs = << >> /\ closers = << >>

\* ------------------------------------------------------- generate_manifest
\* The manifest dict as generate_manifest() creates it: the metadata and an
\* empty tools list (identical in both scripts).
NewManifest ==
  [ name |-> "TheLoopGPT.ai",
    description |-> "A comprehensive AI-powered nutrition and wellness platform with adaptive feedback loops. TheLoopGPT.ai provides personalized meal planning, weight tracking, nutrition analysis, and delivery integration across 100+ languages and 25 countries.",
    version |-> "2.0.0",
    schema_version |-> "v1",
    namespace |-> "loopgpt",
    contact_email |-> "support@theloopgpt.ai",
    api |-> [type |-> "openai-mcp", url |-> "https://qmagnwxeijctkksqbcqz.supabase.co/functions/v1/mcp-server"],
    authentication |-> [type |-> "none"],
    tools |-> << >> ]

\* Mutants of the active tool dict: it carries the empty placeholder schema,
\* and it also carries "deprecated": False.
ActiveToolWithPlaceholder(name, spec) ==
  [ name |-> name,
    category |-> spec.category,
    description |-> spec.description,
    input_schema |-> [type |-> "object", properties |-> << >>] ]

ActiveToolFlagged(name, spec) ==
  [ name |-> name,
    category |-> spec.category,
    description |-> spec.description,
    deprecated |-> FALSE,
    input_schema |-> spec.input_schema ]

\* The dict built for an item of TOOLS.
ActiveTool(name, spec) ==
  [ name |-> name,
    category |-> spec.category,
    description |-> spec.description,
    input_schema |-> spec.input_schema ]

\* Mutants of the alias dict: "name" taken from spec["redirect_to"],
\* "redirect_to" taken from name, and "deprecated": False.
DeprecatedToolNamedByTarget(name, spec) ==
  [ name |-> spec.redirect_to,
    category |-> spec.category,
    description |-> spec.description,
    redirect_to |-> spec.redirect_to,
    deprecated |-> TRUE,
    input_schema |-> [type |-> "object", properties |-> << >>] ]

DeprecatedToolRedirectToSelf(name, spec) ==
  [ name |-> name,
    category |-> spec.category,
    description |-> spec.description,
    redirect_to |-> name,
    deprecated |-> TRUE,
    input_schema |-> [type |-> "object", properties |-> << >>] ]

\* Mutant of the alias dict: it carries the input_schema of the tool it
\* redirects to when TOOLS has that tool.
DeprecatedToolWithTargetSchema(name, spec) ==
  [ name |-> name,
    category |-> spec.category,
    description |-> spec.description,
    redirect_to |-> spec.redirect_to,
    deprecated |-> TRUE,
    input_schema |->
      IF Has(TOOLS, spec.redirect_to)
      THEN TOOLS[CHOOSE j \in 1..Len(TOOLS) : TOOLS[j].name = spec.redirect_to].spec.input_schema
      ELSE [type |-> "object", properties |-> << >>] ]

DeprecatedToolNotFlagged(name, spec) ==
  [ name |-> name,
    category |-> spec.category,
    description |-> spec.description,
    redirect_to |-> spec.redirect_to,
    deprecated |-> FALSE,
    input_schema |-> [type |-> "object", properties |-> << >>] ]

\* Mutant of the alias dict: the alias is filed under the category of the
\* tool it redirects to when TOOLS has that tool.
DeprecatedToolInTargetCategory(name, spec) ==
  [ name |-> name,
    category |->
      IF Has(TOOLS, spec.redirect_to)
      THEN TOOLS[CHOOSE j \in 1..Len(TOOLS) : TOOLS[j].name = spec.redirect_to].spec.category
      ELSE spec.category,
    description |-> spec.description,
    redirect_to |-> spec.redirect_to,
    deprecated |-> TRUE,
    input_schema |-> [type |-> "object", properties |-> << >>] ]

\* The dict built for an item of DEPRECATED_ALIASES.
DeprecatedTool(name, spec) ==
  [ name |-> name,
    category |-> spec.category,
    description |-> spec.description,
    redirect_to |-> spec.redirect_to,
    deprecated |-> TRUE,
    input_schema |-> [type |-> "object", properties |-> << >>] ]

\* Mutants of manifest["tools"].append(tool): a tools table keyed by name (an
\* entry of the same name is replaced), and manifest["tools"].insert(0, tool).
AppendToolKeyedByName(manifest, tool) ==
  [manifest EXCEPT !.tools =
     IF \E j \in 1..Len(@) : @[j].name = tool.name
     THEN [j \in 1..Len(@) |-> IF @[j].name = tool.name THEN tool ELSE @[j]]
     ELSE Append(@, tool)]

AppendToolInFront(manifest, tool) == [manifest EXCEPT !.tools = << tool >> \o @]

\* manifest["tools"].append(tool)
AppendTool(manifest, tool) == [manifest EXCEPT !.tools = Append(@, tool)]

\* Mutant of the entry of generate_manifest(): the manifest dict is a module
\* global, so a later call of the same process goes on with the tools list of
\* the call before.
NewFrameOnSharedManifest ==
  [ manifest |-> IF returned # << >> /\ returned[Len(returned)].run = runs
                 THEN returned[Len(returned)].manifest
                 ELSE NewManifest,
    it |-> 1 ]

\* The frame of a call at its first statement.
NewFrame == [manifest |-> NewManifest, it |-> 1]

frame == stack[Len(stack)]

\* manifest = generate_manifest() in __main__, or a call by an importing
\* process (which may call again after a return).
Call ==
  /\ \/ pc = "start"
     \/ pc = "called" /\ mode = "import" /\ Len(returned) < MaxCalls
  /\ stack' = Append(stack, NewFrame)
  /\ pc' = "tools_loop"
  /\ UNCHANGED << script, mode, TOOLS, DEPRECATED_ALIASES, returned,
                  file, fileAtStart, f, pending, printed, status, runs,
                  opsVars, concVars >>

\* Mutant of the loop over TOOLS: "while TOOLS: name, spec = TOOLS.popitem()",
\* which consumes the registry.
AddActiveToolPopping ==
  /\ pc = "tools_loop"
  /\ TOOLS # << >>
  /\ stack' = [stack EXCEPT ![Len(stack)].manifest =
                 AppendTool(@, ActiveTool(Head(TOOLS).name, Head(TOOLS).spec))]
  /\ TOOLS' = Tail(TOOLS)
  /\ UNCHANGED << script, mode, DEPRECATED_ALIASES, pc, returned,
                  file, fileAtStart, f, pending, printed, status, runs,
                  opsVars, concVars >>

\* One pass of "for name, spec in TOOLS.items()".
AddActiveTool ==
  /\ pc = "tools_loop"
  /\ frame.it <= Len(TOOLS)
  /\ LET item == TOOLS[frame.it] IN
     stack' = [stack EXCEPT ![Len(stack)] =
                 [ manifest |-> AppendTool(@.manifest, ActiveTool(item.name, item.spec)),
                   it |-> @.it + 1 ]]
  /\ UNCHANGED << script, mode, TOOLS, DEPRECATED_ALIASES, pc, returned,
                  file, fileAtStart, f, pending, printed, status, runs,
                  opsVars, concVars >>

\* TOOLS.items() is exhausted: on to the loop over DEPRECATED_ALIASES.
ActiveToolsDone ==
  /\ pc = "tools_loop"
  /\ frame.it > Len(TOOLS)
  /\ stack' = [stack EXCEPT ![Len(stack)].it = 1]
  /\ pc' = "aliases_loop"
  /\ UNCHANGED << script, mode, TOOLS, DEPRECATED_ALIASES, returned,
                  file, fileAtStart, f, pending, printed, status, runs,
                  opsVars, concVars >>

\* Mutants of the loop over DEPRECATED_ALIASES: an alias whose redirect_to an
\* earlier alias already has raises ValueError, which ends the process with
\* status 1; and such an alias is skipped.
AddDeprecatedAliasRejectingSharedTarget ==
  /\ pc = "aliases_loop"
  /\ frame.it <= Len(DEPRECATED_ALIASES)
  /\ LET item == DEPRECATED_ALIASES[frame.it] IN
     IF \E h \in 1..(frame.it - 1) :
          DEPRECATED_ALIASES[h].spec.redirect_to = item.spec.redirect_to
     THEN /\ stack' = << >>
          /\ pc' = "exit"
          /\ status' = "exit 1"
     ELSE /\ stack' = [stack EXCEPT ![Len(stack)] =
                 [ manifest |-> AppendTool(@.manifest, DeprecatedTool(item.name, item.spec)),
                   it |-> @.it + 1 ]]
          /\ pc' = pc
          /\ status' = status
  /\ UNCHANGED << script, mode, TOOLS, DEPRECATED_ALIASES, returned,
                  file, fileAtStart, f, pending, printed, runs,
                  opsVars, concVars >>

AddDeprecatedAliasOncePerTarget ==
  /\ pc = "aliases_loop"
  /\ frame.it <= Len(DEPRECATED_ALIASES)
  /\ LET item == DEPRECATED_ALIASES[frame.it] IN
     stack' = [stack EXCEPT ![Len(stack)] =
                 [ manifest |->
                     IF \E h \in 1..(frame.it - 1) :
                          DEPRECATED_ALIASES[h].spec.redirect_to = item.spec.redirect_to
                     THEN @.manifest
                     ELSE AppendTool(@.manifest, DeprecatedTool(item.name, item.spec)),
                   it |-> @.it + 1 ]]
  /\ UNCHANGED << script, mode, TOOLS, DEPRECATED_ALIASES, pc, returned,
                  file, fileAtStart, f, pending, printed, status, runs,
                  opsVars, concVars >>

\* One pass of "for name, spec in DEPRECATED_ALIASES.items()".
AddDeprecatedAlias ==
  /\ pc = "aliases_loop"
  /\ frame.it <= Len(DEPRECATED_ALIASES)
  /\ LET item == DEPRECATED_ALIASES[frame.it] IN
     stack' = [stack EXCEPT ![Len(stack)] =
                 [ manifest |-> AppendTool(@.manifest, DeprecatedTool(item.name, item.spec)),
                   it |-> @.it + 1 ]]
  /\ UNCHANGED << script, mode, TOOLS, DEPRECATED_ALIASES, pc, returned,
                  file, fileAtStart, f, pending, printed, status, runs,
                  opsVars, concVars >>

\* return manifest
Return ==
  /\ pc = "aliases_loop"
  /\ frame.it > Len(DEPRECATED_ALIASES)
  /\ returned' = Append(returned, [ run |-> runs, script |-> script, TOOLS |-> TOOLS,
                                     DEPRECATED_ALIASES |-> DEPRECATED_ALIASES,
                                     manifest |-> frame.manifest ])
  /\ stack' = SubSeq(stack, 1, Len(stack) - 1)
  /\ pc' = "called"
  /\ UNCHANGED << script, mode, TOOLS, DEPRECATED_ALIASES,
                  file, fileAtStart, f, pending, printed, status, runs,
                  opsVars, concVars >>

\* ---------------------------------------------------------------- __main__
Last(s) == s[Len(s)]

\* The keys of the manifest dict and of a tool dict in insertion order, which
\* is the order json.dump writes them in (no sort_keys).
ManifestKeys ==
  << "name", "description", "version", "schema_version", "namespace",
     "contact_email", "api", "authentication", "tools" >>

ToolKeys(tool) ==
  SelectSeq(<< "name", "category", "description", "redirect_to", "deprecated",
               "input_schema" >>,
            LAMBDA k : k \in DOMAIN tool)

\* A dict as JSON text: its "key": value members in the order of keys.
JsonObject(d, keys) == [k \in 1..Len(keys) |-> << keys[k], d[keys[k]] >>]

\* The text json.dump(manifest, f, indent=2) writes, in the pieces it writes
\* it in: the members before the tools array, one object per tool, and the
\* closing of the array and of the document.
JsonHead(manifest) ==
  JsonObject(manifest, SubSeq(ManifestKeys, 1, Len(ManifestKeys) - 1))

JsonEnd == << << "tools", "]}" >> >>

JsonChunks(manifest) ==
  << JsonHead(manifest) >>
  \o [j \in 1..Len(manifest.tools) |->
        JsonObject(manifest.tools[j], ToolKeys(manifest.tools[j]))]
  \o << JsonEnd >>

\* The destination before any generator ran: absent, or an earlier manifest.
NoFile == [exists |-> FALSE, content |-> << >>]
EarlierFile ==
  [exists |-> TRUE, content |-> << << << "name", "earlier manifest" >> >>, JsonEnd >>]

\* write(chunk) at offset pos of a file holding content (a write past the
\* end leaves a hole of empty chunks).
WriteAt(content, pos, chunk) ==
  [j \in 1..(IF pos + 1 > Len(content) THEN pos + 1 ELSE Len(content)) |->
     IF j = pos + 1 THEN chunk
     ELSE IF j <= Len(content) THEN content[j]
     ELSE << >>]

\* Mutant of open: mode "a", which keeps the content and writes after it.
OpenForAppend ==
  /\ pc = "called"
  /\ mode = "main"
  /\ file' = [exists |-> TRUE, content |-> file.content]
  /\ f' = [closed |-> FALSE, pos |-> Len(file.content)]
  /\ pending' = JsonChunks(returned[Len(returned)].manifest)
  /\ pc' = "dump"
  /\ UNCHANGED << script, mode, TOOLS, DEPRECATED_ALIASES, stack, returned,
                  fileAtStart, printed, status, runs,
                  opsVars, concVars >>

\* Mutant of open: mode "r+" (or os.open with O_CREAT alone), which keeps the
\* content and writes over it from the start.
OpenForUpdate ==
  /\ pc = "called"
  /\ mode = "main"
  /\ file' = [exists |-> TRUE, content |-> file.content]
  /\ f' = [closed |-> FALSE, pos |-> 0]
  /\ pending' = JsonChunks(returned[Len(returned)].manifest)
  /\ pc' = "dump"
  /\ UNCHANGED << script, mode, TOOLS, DEPRECATED_ALIASES, stack, returned,
                  fileAtStart, printed, status, runs,
                  opsVars, concVars >>

\* open(path, "w"): the file is created or truncated; json.dump starts.
Open ==
  /\ pc = "called"
  /\ mode = "main"
  /\ file' = [exists |-> TRUE, content |-> << >>]
  /\ f' = [closed |-> FALSE, pos |-> 0]
  /\ pending' = JsonChunks(Last(returned).manifest)
  /\ pc' = "dump"
  /\ UNCHANGED << script, mode, TOOLS, DEPRECATED_ALIASES, stack, returned,
                  fileAtStart, printed, status, runs,
                  opsVars, concVars >>

\* json.dump: fp.write(chunk) for the next chunk.
WriteChunk ==
  /\ pc = "dump"
  /\ pending # << >>
  /\ file' = [file EXCEPT !.content = WriteAt(@, f.pos, Head(pending))]
  /\ f' = [f EXCEPT !.pos = @ + 1]
  /\ pending' = Tail(pending)
  /\ UNCHANGED << script, mode, TOOLS, DEPRECATED_ALIASES, pc, stack, returned,
                  fileAtStart, printed, status, runs,
                  opsVars, concVars >>

\* The with block ends: the file is closed.
Close ==
  /\ pc = "dump"
  /\ pending = << >>
  /\ f' = [f EXCEPT !.closed = TRUE]
  /\ pc' = "print"
  /\ UNCHANGED << script, mode, TOOLS, DEPRECATED_ALIASES, stack, returned,
                  file, fileAtStart, pending, printed, status, runs,
                  opsVars, concVars >>

\* The counts of the four print calls; the script ends with status 0.
PrintCounts ==
  /\ pc = "print"
  /\ printed' = Append(printed,
       [ generated |-> Len(Last(returned).manifest.tools),
         active |-> Len(TOOLS),
         deprecated |-> Len(DEPRECATED_ALIASES),
         total |-> Len(Last(returned).manifest.tools) ])
  /\ pc' = "exit"
  /\ status' = "exit 0"
  /\ UNCHANGED << script, mode, TOOLS, DEPRECATED_ALIASES, stack, returned,
                  file, fileAtStart, f, pending, runs,
                  opsVars, concVars >>

\* A later run against the same destination: either script, or the same
\* other registries again; the module is loaded afresh.
NewRun ==
  /\ pc = "exit"
  /\ runs < MaxRuns
  /\ \E m \in Modules :
       /\ IF script \in Scripts
          THEN m.script \in Scripts
          ELSE m = [script |-> script, TOOLS |-> TOOLS,
                    DEPRECATED_ALIASES |-> DEPRECATED_ALIASES]
       /\ script' = m.script
       /\ TOOLS' = m.TOOLS
       /\ DEPRECATED_ALIASES' = m.DEPRECATED_ALIASES
  /\ runs' = runs + 1
  /\ pc' = "start"
  /\ status' = "running"
  /\ fileAtStart' = file
  /\ f' = [closed |-> TRUE, pos |-> 0]
  /\ UNCHANGED << mode, stack, returned, file, pending, printed,
                  opsVars, concVars >>

Init ==
  /\ \E m \in Modules :
       /\ script = m.script
       /\ TOOLS = m.TOOLS
       /\ DEPRECATED_ALIASES = m.DEPRECATED_ALIASES
  /\ mode \in {"main", "import"}
  /\ pc = "start"
  /\ stack = << >>
  /\ returned = << >>
  /\ file \in {NoFile, EarlierFile}
  /\ fileAtStart = file
  /\ f = [closed |-> TRUE, pos |-> 0]
  /\ pending = << >>
  /\ printed = << >>
  /\ status = "running"
  /\ runs = 1
  /\ OpsIdle
  /\ ConcIdle

Next ==
  \/ Call
  \/ AddActiveTool
  \/ ActiveToolsDone
  \/ AddDeprecatedAlias
  \/ Return
  \/ Open
  \/ WriteChunk
  \/ Close
  \/ PrintCounts
  \/ NewRun

Spec == Init /\ [][Next]_vars

\* ========================================================= deploy_migration
\* Longest output (in lines) of the credentials command that is enumerated.
MaxLines == 3

\* The lines "source .env && echo $SUPABASE_URL && echo $SUPABASE_SERVICE_ROLE_KEY"
\* can print: an unset variable gives an empty line, a failing source nothing.
CredLines == {"", "https://qmagnwxeijctkksqbcqz.supabase.co", "service-role-key"}
Stdouts == UNION { [1..n -> CredLines] : n \in 0..MaxLines }

\* What "supabase db dump --db-url --linked" prints.
DbUrlStdouts == { << >>, << "postgresql://postgres@db.supabase.co:5432/postgres" >> }

\* The exit codes of a subprocess.
ReturnCodes == {0, 1, 2}

\* The migration file as read: empty, or holding SQL.
SqlContents == { "", "CREATE TABLE subscriptions (id uuid);" }

\* text.strip().split('\n') for a text given as its lines, each ended by a
\* newline: leading and trailing blank lines go, and what is left of an
\* all-blank text is the one empty string.
RECURSIVE StripLeft(_)
StripLeft(ls) == IF ls # << >> /\ Head(ls) = "" THEN StripLeft(Tail(ls)) ELSE ls

RECURSIVE StripRight(_)
StripRight(ls) ==
  IF ls # << >> /\ ls[Len(ls)] = "" THEN StripRight(SubSeq(ls, 1, Len(ls) - 1)) ELSE ls

SplitLines(ls) ==
  LET t == StripRight(StripLeft(ls)) IN IF t = << >> THEN << "" >> ELSE t

\* The variables of deploy_migration.py before its first statement.
DeployLocals ==
  [ script |-> "deploy_migration",
    migration_file |-> "supabase/migrations/20251101180000_create_billing_tables.sql",
    sql_content |-> "",
    lines |-> << >>,
    supabase_url |-> "",
    service_role_key |-> "",
    db_url |-> << >>,
    result |-> [args |-> "none", returncode |-> 0, stdout |-> << >>] ]

\* The four lines that tell the user to run the migration manually.
ManualInstructions ==
  << "Please run the migration manually", "1. Go to the dashboard",
     "2. Copy SQL from migration_file", "3. Paste and execute" >>

\* Lines 13-18: the migration file is read; open() raises when it is missing,
\* and the uncaught exception ends the process with status 1.
DeployReadFile ==
  /\ pc = "deploy_start"
  /\ \E found \in BOOLEAN, text \in SqlContents :
       IF found
       THEN /\ locals' = [locals EXCEPT !.sql_content = text]
            /\ ran' = Append(ran, [op |-> "open", raised |-> FALSE, returncode |-> 0, stdout |-> << >>])
            /\ out' = out \o << "Reading migration file", "Migration file loaded" >>
            /\ pc' = "deploy_credentials"
            /\ status' = "running"
       ELSE /\ locals' = locals
            /\ ran' = Append(ran, [op |-> "open", raised |-> TRUE, returncode |-> 0, stdout |-> << >>])
            /\ out' = out \o << "Reading migration file", "Traceback" >>
            /\ pc' = "deploy_exit"
            /\ status' = "exit 1"
  /\ UNCHANGED << genVars, file, concVars >>

\* Lines 21-33: the credentials command runs, its output is split in lines,
\* and fewer than two lines end the script with status 1.
DeployLoadCredentials ==
  /\ pc = "deploy_credentials"
  /\ \E stdout \in Stdouts, rc \in ReturnCodes :
       LET lines == SplitLines(stdout) IN
       /\ ran' = Append(ran, [op |-> "bash source .env", raised |-> FALSE, returncode |-> rc,
                              stdout |-> stdout])
       /\ IF Len(lines) < 2
          THEN /\ locals' = [locals EXCEPT
                    !.result = [args |-> "bash source .env", returncode |-> rc, stdout |-> stdout],
                    !.lines = lines]
               /\ out' = out \o << "Loading Supabase credentials",
                                   "Error: Could not load environment variables" >>
               /\ pc' = "deploy_exit"
               /\ status' = "exit 1"
          ELSE /\ locals' = [locals EXCEPT
                    !.result = [args |-> "bash source .env", returncode |-> rc, stdout |-> stdout],
                    !.lines = lines,
                    !.supabase_url = lines[1],
                    !.service_role_key = lines[2]]
               /\ out' = out \o << "Loading Supabase credentials", "Supabase URL" >>
               /\ pc' = "deploy_db_url"
               /\ status' = "running"
  /\ UNCHANGED << genVars, file, concVars >>

\* Mutant of lines 36-51: the return code of the command is not checked.
DeployGetDbUrlUnchecked ==
  /\ pc = "deploy_db_url"
  /\ \E rc \in ReturnCodes, stdout \in DbUrlStdouts :
       /\ ran' = Append(ran, [op |-> "supabase db dump", raised |-> FALSE, returncode |-> rc,
                              stdout |-> stdout])
       /\ locals' = [locals EXCEPT
            !.result = [args |-> "supabase db dump", returncode |-> rc, stdout |-> stdout],
            !.db_url = stdout]
       /\ out' = out \o << "Getting database connection string", "Database URL obtained" >>
       /\ pc' = "deploy_psql"
       /\ status' = "running"
  /\ UNCHANGED << genVars, file, concVars >>

\* Lines 36-51: the DB-URL command runs (subprocess.run raises when there is
\* no supabase executable); a non-zero return code prints the error with the
\* manual instructions and ends the script with status 1.
DeployGetDbUrl ==
  /\ pc = "deploy_db_url"
  /\ \E found \in BOOLEAN, rc \in ReturnCodes, stdout \in DbUrlStdouts :
       IF ~found
       THEN /\ rc = 0
            /\ stdout = << >>
            /\ ran' = Append(ran, [op |-> "supabase db dump", raised |-> TRUE,
                                   returncode |-> 0, stdout |-> << >>])
            /\ locals' = locals
            /\ out' = out \o << "Getting database connection string", "Traceback" >>
            /\ pc' = "deploy_exit"
            /\ status' = "exit 1"
       ELSE /\ ran' = Append(ran, [op |-> "supabase db dump", raised |-> FALSE,
                                   returncode |-> rc, stdout |-> stdout])
            /\ IF rc # 0
               THEN /\ locals' = [locals EXCEPT
                         !.result = [args |-> "supabase db dump", returncode |-> rc,
                                     stdout |-> stdout]]
                    /\ out' = out \o << "Getting database connection string",
                                        "Error getting DB URL" >> \o ManualInstructions
                    /\ pc' = "deploy_exit"
                    /\ status' = "exit 1"
               ELSE /\ locals' = [locals EXCEPT
                         !.result = [args |-> "supabase db dump", returncode |-> rc,
                                     stdout |-> stdout],
                         !.db_url = stdout]
                    /\ out' = out \o << "Getting database connection string",
                                        "Database URL obtained" >>
                    /\ pc' = "deploy_psql"
                    /\ status' = "running"
  /\ UNCHANGED << genVars, file, concVars >>

\* The messages of lines 67-74.
SuccessMessages ==
  << "Migration executed successfully", "result.stdout", "Database migration complete",
     "subscriptions table created", "entitlements table created",
     "analytics_events table created", "Helper functions created", "RLS policies enabled" >>

\* Mutant of lines 54-74: the return code of psql is not checked.
DeployRunPsqlUnchecked ==
  /\ pc = "deploy_psql"
  /\ \E rc \in ReturnCodes :
       /\ ran' = Append(ran, [op |-> "psql", raised |-> FALSE, returncode |-> rc, stdout |-> << >>])
       /\ locals' = [locals EXCEPT
            !.result = [args |-> "psql", returncode |-> rc, stdout |-> << >>]]
       /\ out' = out \o << "Executing migration" >> \o SuccessMessages
       /\ pc' = "deploy_exit"
       /\ status' = "exit 0"
  /\ UNCHANGED << genVars, file, concVars >>

\* Lines 54-74: psql runs on the migration file (subprocess.run raises when
\* there is no psql); a non-zero return code prints the failure with the
\* manual instructions and ends the script with status 1, and return code 0
\* prints the success messages, after which the script ends.
DeployRunPsql ==
  /\ pc = "deploy_psql"
  /\ \E found \in BOOLEAN, rc \in ReturnCodes :
       /\ ran' = Append(ran, [op |-> "psql", raised |-> ~found,
                              returncode |-> IF found THEN rc ELSE 0, stdout |-> << >>])
       /\ IF ~found
          THEN /\ rc = 0
               /\ locals' = locals
               /\ out' = out \o << "Executing migration", "Traceback" >>
               /\ status' = "exit 1"
          ELSE /\ locals' = [locals EXCEPT
                    !.result = [args |-> "psql", returncode |-> rc, stdout |-> << >>]]
               /\ IF rc # 0
                  THEN /\ out' = out \o << "Executing migration", "Migration failed" >>
                                     \o ManualInstructions
                       /\ status' = "exit 1"
                  ELSE /\ out' = out \o << "Executing migration" >> \o SuccessMessages
                       /\ status' = "exit 0"
       /\ pc' = "deploy_exit"
  /\ UNCHANGED << genVars, file, concVars >>

\* A process that runs deploy_migration.py: no generator module is loaded.
GenIdle ==
  /\ mode = "main"
  /\ TOOLS = << >>
  /\ DEPRECATED_ALIASES = << >>
  /\ stack = << >>
  /\ returned = << >>
  /\ file = NoFile
  /\ fileAtStart = NoFile
  /\ f = [closed |-> TRUE, pos |-> 0]
  /\ pending = << >>
  /\ printed = << >>
  /\ runs = 1

InitDeploy ==
  /\ script = "deploy_migration"
  /\ GenIdle
  /\ pc = "deploy_start"
  /\ status = "running"
  /\ locals = DeployLocals
  /\ ran = << >>
  /\ out = << >>
  /\ ConcIdle

NextDeploy ==
  \/ DeployReadFile
  \/ DeployLoadCredentials
  \/ DeployGetDbUrl
  \/ DeployRunPsql

SpecDeploy == InitDeploy /\ [][NextDeploy]_vars

\* =========================================================== run_migrations
\* Longest migration file (in characters) that is enumerated.
MaxLen == 3

\* The characters of a migration file: SQL text, the statement separator, the
\* comment dash, and whitespace.
Chars == {"s", ";", "-", " "}
Texts == UNION { [1..n -> Chars] : n \in 0..MaxLen }

\* The migrations list of lines 17-20.
migrations ==
  << "supabase/migrations/20251101180100_create_food_search_logs.sql",
     "supabase/migrations/20251101180200_add_metrics_functions.sql" >>

\* The values os.getenv("SUPABASE_SERVICE_ROLE_KEY") can give: None (the empty
\* sequence), the empty string, a key.
KeyValues == { << >>, << "" >>, << "service-role-key" >> }

\* The values os.getenv("SUPABASE_URL") can find: unset (the empty sequence),
\* the empty string, a URL; and the default of line 9 for an unset variable.
UrlValues == { << >>, << "" >>, << "https://project.supabase.co" >> }
DefaultUrl == "https://qmagnwxeijctkksqbcqz.supabase.co"

\* os.getenv(name, default)
Getenv(value, default) == IF value = << >> THEN default ELSE value[1]

\* The HTTP statuses a POST is answered with.
StatusCodes == {200, 201, 204, 500}

\* The list of line 52.
OkStatusCodes == {200, 201, 204}

\* sql.split(';')
RECURSIVE Split(_)
Split(text) ==
  IF \A j \in 1..Len(text) : text[j] # ";"
  THEN << text >>
  ELSE LET j == CHOOSE j \in 1..Len(text) :
                  text[j] = ";" /\ \A h \in 1..(j - 1) : text[h] # ";"
       IN << SubSeq(text, 1, j - 1) >> \o Split(SubSeq(text, j + 1, Len(text)))

\* s.strip()
RECURSIVE Strip(_)
Strip(s) ==
  IF s # << >> /\ Head(s) = " " THEN Strip(Tail(s))
  ELSE IF s # << >> /\ s[Len(s)] = " " THEN Strip(SubSeq(s, 1, Len(s) - 1))
  ELSE s

\* Mutant of s.startswith('--'): s.startswith('-').
StartsWithDash(s) == Len(s) >= 1 /\ s[1] = "-"

\* s.startswith('--')
StartsWithDashes(s) == Len(s) >= 2 /\ s[1] = "-" /\ s[2] = "-"

\* Line 33: [s.strip() for s in pieces if s.strip() and not s.strip().startswith('--')]
RECURSIVE Stripped(_)
Stripped(pieces) ==
  IF pieces = << >> THEN << >>
  ELSE LET s == Strip(Head(pieces)) IN
       IF s # << >> /\ ~StartsWithDashes(s)
       THEN << s >> \o Stripped(Tail(pieces))
       ELSE Stripped(Tail(pieces))

Statements(sql) == Stripped(Split(sql))

\* The variables of run_migrations.py before the key is examined.
MigrateLocals ==
  [ script |-> "run_migrations",
    environ |-> [SUPABASE_URL |-> << >>, SUPABASE_SERVICE_ROLE_KEY |-> << >>],
    SUPABASE_URL |-> DefaultUrl,
    SUPABASE_SERVICE_ROLE_KEY |-> << >>,
    migration |-> 1,
    statements |-> << >>,
    i |-> 1 ]

\* Mutant of lines 9-23: "if SUPABASE_SERVICE_ROLE_KEY is None", which lets
\* the empty key pass.
MigrateCheckKeyIsNone ==
  /\ pc = "migrate_start"
  /\ \E url \in UrlValues, key \in KeyValues :
       /\ locals' = [locals EXCEPT
            !.environ = [SUPABASE_URL |-> url, SUPABASE_SERVICE_ROLE_KEY |-> key],
            !.SUPABASE_URL = Getenv(url, DefaultUrl),
            !.SUPABASE_SERVICE_ROLE_KEY = key]
       /\ IF key = << >>
          THEN /\ out' = out \o << "Error: SUPABASE_SERVICE_ROLE_KEY not set" >>
               /\ pc' = "migrate_exit"
               /\ status' = "exit 1"
          ELSE /\ out' = out \o << "Running database migrations" >>
               /\ pc' = "migrate_file"
               /\ status' = "running"
  /\ UNCHANGED << genVars, file, ran, concVars >>

\* Lines 9-23: the URL and the key are taken from the environment, the URL
\* with a default; without a key, or with an empty one, the script prints the
\* error and exits with status 1.
MigrateCheckKey ==
  /\ pc = "migrate_start"
  /\ \E url \in UrlValues, key \in KeyValues :
       /\ locals' = [locals EXCEPT
            !.environ = [SUPABASE_URL |-> url, SUPABASE_SERVICE_ROLE_KEY |-> key],
            !.SUPABASE_URL = Getenv(url, DefaultUrl),
            !.SUPABASE_SERVICE_ROLE_KEY = key]
       /\ IF key = << >> \/ key = << "" >>
          THEN /\ out' = out \o << "Error: SUPABASE_SERVICE_ROLE_KEY not set" >>
               /\ pc' = "migrate_exit"
               /\ status' = "exit 1"
          ELSE /\ out' = out \o << "Running database migrations" >>
               /\ pc' = "migrate_file"
               /\ status' = "running"
  /\ UNCHANGED << genVars, file, ran, concVars >>

\* Lines 25-33: the next migration file is read and split into statements;
\* open() raises when the file is missing.
MigrateReadFile ==
  /\ pc = "migrate_file"
  /\ locals.migration <= Len(migrations)
  /\ \E found \in BOOLEAN, sql \in Texts :
       IF found
       THEN /\ locals' = [locals EXCEPT !.statements = Statements(sql), !.i = 1]
            /\ ran' = Append(ran, [op |-> "read", file |-> locals.migration,
                                   raised |-> FALSE, n |-> Len(Statements(sql))])
            /\ out' = out \o << "Running migration" >>
            /\ pc' = "migrate_post"
            /\ status' = "running"
       ELSE /\ sql = << >>
            /\ locals' = locals
            /\ ran' = Append(ran, [op |-> "read", file |-> locals.migration,
                                   raised |-> TRUE, n |-> 0])
            /\ out' = out \o << "Running migration", "Traceback" >>
            /\ pc' = "migrate_exit"
            /\ status' = "exit 1"
  /\ UNCHANGED << genVars, file, concVars >>

\* Mutant of lines 35-56: "for i, statement in enumerate(reversed(statements), 1)",
\* which sends the last statement of a file first.
MigratePostFromLast ==
  /\ pc = "migrate_post"
  /\ locals.i <= Len(locals.statements)
  /\ \E code \in StatusCodes :
       /\ ran' = Append(ran, [op |-> "post", file |-> locals.migration,
                              i |-> Len(locals.statements) + 1 - locals.i,
                              raised |-> FALSE, status_code |-> code])
       /\ locals' = [locals EXCEPT !.i = locals.i + 1]
       /\ out' = out \o (IF code \in OkStatusCodes
                         THEN << "Statement ok" >>
                         ELSE << "Statement warning", "response.text" >>)
       /\ pc' = "migrate_post"
       /\ status' = "running"
  /\ UNCHANGED << genVars, file, concVars >>

\* Mutant of lines 35-56: a status outside the list ends the script.
MigratePostStopping ==
  /\ pc = "migrate_post"
  /\ locals.i <= Len(locals.statements)
  /\ \E code \in StatusCodes :
       /\ ran' = Append(ran, [op |-> "post", file |-> locals.migration, i |-> locals.i,
                              raised |-> FALSE, status_code |-> code])
       /\ IF code \in OkStatusCodes
          THEN /\ locals' = [locals EXCEPT !.i = locals.i + 1]
               /\ out' = out \o << "Statement ok" >>
               /\ pc' = "migrate_post"
               /\ status' = "running"
          ELSE /\ locals' = locals
               /\ out' = out \o << "Statement warning", "response.text" >>
               /\ pc' = "migrate_exit"
               /\ status' = "exit 1"
  /\ UNCHANGED << genVars, file, concVars >>

\* Lines 35-56: the next statement, statements[i], is POSTed to
\* SUPABASE_URL/rest/v1/rpc/exec_sql (requests.post raises when the URL is
\* empty, and when the server cannot be reached); the log names the statement
\* by its file and index. A status in the
\* list prints the check mark, any other status prints the warning and the
\* response text, and the loop goes on either way.
MigratePost ==
  /\ pc = "migrate_post"
  /\ locals.i <= Len(locals.statements)
  /\ \E answered \in BOOLEAN, code \in StatusCodes :
       IF ~answered \/ locals.SUPABASE_URL = ""
       THEN /\ ~answered
            /\ code = 500
            /\ ran' = Append(ran, [op |-> "post", file |-> locals.migration, i |-> locals.i,
                                   raised |-> TRUE, status_code |-> 0])
            /\ locals' = locals
            /\ out' = out \o << "Traceback" >>
            /\ pc' = "migrate_exit"
            /\ status' = "exit 1"
       ELSE /\ ran' = Append(ran, [op |-> "post", file |-> locals.migration, i |-> locals.i,
                                   raised |-> FALSE, status_code |-> code])
            /\ locals' = [locals EXCEPT !.i = locals.i + 1]
            /\ out' = out \o (IF code \in OkStatusCodes
                              THEN << "Statement ok" >>
                              ELSE << "Statement warning", "response.text" >>)
            /\ pc' = "migrate_post"
            /\ status' = "running"
  /\ UNCHANGED << genVars, file, concVars >>

\* Line 58 and the head of the for loop of line 25: after the last statement
\* of a file the loop turns to the next migration.
MigrateFileDone ==
  /\ pc = "migrate_post"
  /\ locals.i > Len(locals.statements)
  /\ locals' = [locals EXCEPT !.migration = locals.migration + 1]
  /\ out' = out \o << "" >>
  /\ pc' = "migrate_file"
  /\ status' = "running"
  /\ UNCHANGED << genVars, file, ran, concVars >>

\* Lines 60-63: after the last migration the completion is printed and the
\* script ends.
MigrateComplete ==
  /\ pc = "migrate_file"
  /\ locals.migration > Len(migrations)
  /\ out' = out \o << "Migration execution complete", "Next steps" >>
  /\ pc' = "migrate_exit"
  /\ status' = "exit 0"
  /\ UNCHANGED << genVars, file, locals, ran, concVars >>

InitMigrations ==
  /\ script = "run_migrations"
  /\ GenIdle
  /\ pc = "migrate_start"
  /\ status = "running"
  /\ locals = MigrateLocals
  /\ ran = << >>
  /\ out = << >>
  /\ ConcIdle

NextMigrations ==
  \/ MigrateCheckKey
  \/ MigrateReadFile
  \/ MigratePost
  \/ MigrateFileDone
  \/ MigrateComplete

SpecMigrations == InitMigrations /\ [][NextMigrations]_vars

\* ------------------------------------------- run_migrations over one file
\* The body of the loop of line 25 for one migration file of any text, with
\* the SQL of every request kept in the log.
StatementsLocals(text) ==
  [ script |-> "run_migrations",
    content |-> text,
    sql |-> << >>,
    statements |-> << >>,
    i |-> 1 ]

\* Lines 28-33: sql = f.read(), and the statements list made from it.
SplitFile ==
  /\ pc = "split_file"
  /\ locals' = [locals EXCEPT !.sql = locals.content,
                              !.statements = Statements(locals.content),
                              !.i = 1]
  /\ out' = out \o << "Running migration" >>
  /\ pc' = "split_post"
  /\ UNCHANGED << genVars, status, file, ran, concVars >>

\* Lines 35-50: the next statement is POSTed as json={'query': statement}.
SendStatement ==
  /\ pc = "split_post"
  /\ locals.i <= Len(locals.statements)
  /\ ran' = Append(ran, [op |-> "post", i |-> locals.i, query |-> locals.statements[locals.i]])
  /\ locals' = [locals EXCEPT !.i = locals.i + 1]
  /\ UNCHANGED << genVars, pc, status, file, out, concVars >>

\* Line 58: the statements of the file are through.
SplitDone ==
  /\ pc = "split_post"
  /\ locals.i > Len(locals.statements)
  /\ out' = out \o << "" >>
  /\ pc' = "split_done"
  /\ UNCHANGED << genVars, status, file, locals, ran, concVars >>

InitStatements ==
  /\ script = "run_migrations"
  /\ GenIdle
  /\ pc = "split_file"
  /\ status = "running"
  /\ \E text \in Texts : locals = StatementsLocals(text)
  /\ ran = << >>
  /\ out = << >>
  /\ ConcIdle

NextStatements ==
  \/ SplitFile
  \/ SendStatement
  \/ SplitDone

SpecStatements == InitStatements /\ [][NextStatements]_vars

\* ===================================================== concurrent generators
\* The generator processes that run at the same time.
Procs == {1, 2}

\* The modules the concurrent processes load: registries of help tools
\* without aliases, so that the documents differ in their entries and in
\* their length.
ConcModules ==
  { m \in Modules :
      /\ m.script = "generate_manifest_any"
      /\ m.DEPRECATED_ALIASES = << >>
      /\ \A j \in 1..Len(m.TOOLS) : m.TOOLS[j].spec.category = "System & Support" }

\* generate_manifest() as a whole: the manifest it returns for the registries
\* T and A (the call reads its module's globals and writes locals only).
generate_manifest(T, A) ==
  [ NewManifest EXCEPT !.tools =
      [j \in 1..Len(T) |-> ActiveTool(T[j].name, T[j].spec)]
      \o [j \in 1..Len(A) |-> DeprecatedTool(A[j].name, A[j].spec)] ]

\* The document process p writes.
Document(p) ==
  JsonChunks(generate_manifest(procs[p].module.TOOLS, procs[p].module.DEPRECATED_ALIASES))

\* Line 543 in process p: manifest = generate_manifest().
ConcCall(p) ==
  /\ procs[p].pc = "start"
  /\ procs' = [procs EXCEPT ![p].pc = "called"]
  /\ UNCHANGED << genVars, pc, status, file, opsVars, closers >>

\* Line 546 in process p: open(path, "w") creates or truncates the file the
\* processes share; json.dump starts.
ConcOpen(p) ==
  /\ procs[p].pc = "called"
  /\ file' = [exists |-> TRUE, content |-> << >>]
  /\ procs' = [procs EXCEPT ![p].pc = "dump",
                            ![p].f = [closed |-> FALSE, pos |-> 0],
                            ![p].pending = Document(p)]
  /\ UNCHANGED << genVars, pc, status, opsVars, closers >>

\* Line 547 in process p: the next chunk is written at the offset of p's own
\* file object.
ConcWriteChunk(p) ==
  /\ procs[p].pc = "dump"
  /\ procs[p].pending # << >>
  /\ file' = [file EXCEPT !.content = WriteAt(@, procs[p].f.pos, Head(procs[p].pending))]
  /\ procs' = [procs EXCEPT ![p].f.pos = @ + 1,
                            ![p].pending = Tail(@)]
  /\ UNCHANGED << genVars, pc, status, opsVars, closers >>

\* The with block of process p ends: its file object is closed; the prints
\* follow and the process ends with status 0.
ConcClose(p) ==
  /\ procs[p].pc = "dump"
  /\ procs[p].pending = << >>
  /\ procs' = [procs EXCEPT ![p].pc = "exit", ![p].f.closed = TRUE]
  /\ closers' = Append(closers, p)
  /\ status' = IF \A q \in Procs \ {p} : procs[q].pc = "exit" THEN "exit 0" ELSE status
  /\ UNCHANGED << genVars, pc, file, opsVars >>

InitConcurrent ==
  /\ script = "generate_manifest_any"
  /\ mode = "main"
  /\ TOOLS = << >>
  /\ DEPRECATED_ALIASES = << >>
  /\ stack = << >>
  /\ returned = << >>
  /\ file \in {NoFile, EarlierFile}
  /\ fileAtStart = file
  /\ f = [closed |-> TRUE, pos |-> 0]
  /\ pending = << >>
  /\ printed = << >>
  /\ runs = 1
  /\ pc = "concurrent"
  /\ status = "running"
  /\ OpsIdle
  /\ procs \in [Procs -> { [module |-> m, pc |-> "start",
                            f |-> [closed |-> TRUE, pos |-> 0],
                            pending |-> << >>] : m \in ConcModules }]
  /\ closers = << >>

NextConcurrent ==
  \/ \E p \in Procs : ConcCall(p)
  \/ \E p \in Procs : ConcOpen(p)
  \/ \E p \in Procs : ConcWriteChunk(p)
  \/ \E p \in Procs : ConcClose(p)

SpecConcurrent == InitConcurrent /\ [][NextConcurrent]_vars

\* ============================================== objects shared with a caller
\* A process that imports a generator module, calls generate_manifest() and
\* changes what it got. The input_schema dicts are objects on a heap
\* (locals.heap), and the entries of a document hold references to them
\* (indexes into the heap) where the dicts of generate_manifest hold a dict.

\* The modules the importing process loads: help tools, and at most the one
\* alias "legacy_a" of tool "a".
SharedModules ==
  { m \in Modules :
      /\ m.script = "generate_manifest_any"
      /\ \A j \in 1..Len(m.TOOLS) : m.TOOLS[j].spec.category = "System & Support"
      /\ \A j \in 1..Len(m.DEPRECATED_ALIASES) :
           /\ m.DEPRECATED_ALIASES[j].name = "legacy_a"
           /\ m.DEPRECATED_ALIASES[j].spec.redirect_to = "a" }

\* The heap after the module is loaded: one dict per "input_schema" literal
\* of TOOLS, the j-th held by the j-th item.
LoadedHeap(T) == [j \in 1..Len(T) |-> T[j].spec.input_schema]

\* Mutant of "input_schema": spec["input_schema"]: the entry gets
\* copy.deepcopy(spec["input_schema"]), a new object for each of the n items.
CopySchemas(heap, n) ==
  [ heap |-> heap \o [j \in 1..n |-> heap[j]],
    refs |-> [j \in 1..n |-> Len(heap) + j] ]

\* "input_schema": spec["input_schema"] for the n items of TOOLS: the entry
\* holds the object the registry holds; nothing is allocated.
ShareSchemas(heap, n) ==
  [ heap |-> heap,
    refs |-> [j \in 1..n |-> j] ]

\* "input_schema": {"type": "object", "properties": {}} for the m items of
\* DEPRECATED_ALIASES: a dict display builds a new object each time.
NewPlaceholders(heap, m) ==
  [ heap |-> heap \o [k \in 1..m |-> [type |-> "object", properties |-> << >>]],
    refs |-> [k \in 1..m |-> Len(heap) + k] ]

\* generate_manifest() as one step of the importing process: both loops, with
\* the references the entries get, and the return.
SharedCall ==
  /\ pc = "imported"
  /\ Len(returned) < MaxCalls
  /\ LET active == ShareSchemas(locals.heap, Len(TOOLS))
         aliases == NewPlaceholders(active.heap, Len(DEPRECATED_ALIASES))
         tools ==
           [j \in 1..Len(TOOLS) |->
              [ActiveTool(TOOLS[j].name, TOOLS[j].spec) EXCEPT
                 !.input_schema = active.refs[j]]]
           \o [k \in 1..Len(DEPRECATED_ALIASES) |->
                 [DeprecatedTool(DEPRECATED_ALIASES[k].name, DEPRECATED_ALIASES[k].spec) EXCEPT
                    !.input_schema = aliases.refs[k]]]
     IN /\ locals' = [locals EXCEPT !.heap = aliases.heap]
        /\ returned' = Append(returned, [NewManifest EXCEPT !.tools = tools])
  /\ UNCHANGED << script, mode, TOOLS, DEPRECATED_ALIASES, stack, fileAtStart, f,
                  pending, printed, runs, pc, status, file, ran, out, concVars >>

\* The caller changes a document in place:
\* doc["tools"][j]["input_schema"]["type"] = "array" (once per object).
CallerMutates ==
  /\ pc = "imported"
  /\ \E k \in 1..Len(returned) :
       \E j \in 1..Len(returned[k].tools) :
         LET ref == returned[k].tools[j].input_schema IN
         /\ locals.heap[ref].type # "array"
         /\ locals' = [locals EXCEPT !.heap[ref].type = "array"]
         /\ ran' = Append(ran, [op |-> "setitem", doc |-> k, entry |-> j])
  /\ UNCHANGED << genVars, pc, status, file, out, concVars >>

InitShared ==
  /\ \E m \in SharedModules :
       /\ script = m.script
       /\ TOOLS = m.TOOLS
       /\ DEPRECATED_ALIASES = m.DEPRECATED_ALIASES
  /\ mode = "import"
  /\ stack = << >>
  /\ returned = << >>
  /\ file = NoFile
  /\ fileAtStart = NoFile
  /\ f = [closed |-> TRUE, pos |-> 0]
  /\ pending = << >>
  /\ printed = << >>
  /\ runs = 1
  /\ pc = "imported"
  /\ status = "running"
  /\ locals = [script |-> "importer", heap |-> LoadedHeap(TOOLS)]
  /\ ran = << >>
  /\ out = << >>
  /\ ConcIdle

NextShared ==
  \/ SharedCall
  \/ CallerMutates

SpecShared == InitShared /\ [][NextShared]_vars

\* ================================================================== claims
\* The tools list of a logged call, and the sizes of the registries it read.
ToolsOf(r) == r.manifest.tools
NumActive(r) == Len(r.TOOLS)
NumAliases(r) == Len(r.DEPRECATED_ALIASES)

\* C1 (count law): every document generate_manifest returned has exactly
\* |TOOLS| + |DEPRECATED_ALIASES| tools, and the counts printed after the
\* write agree: generated = total = active + deprecated.
C1_CountLaw ==
  /\ \A j \in DOMAIN returned :
       Len(ToolsOf(returned[j])) = NumActive(returned[j]) + NumAliases(returned[j])
  /\ \A j \in DOMAIN printed :
       /\ printed[j].total = printed[j].active + printed[j].deprecated
       /\ printed[j].generated = printed[j].total

\* A script has printed its counts for registries that share a name ("a" is
\* a tool and an alias) and for the literal registries of a script.
C1_Witness ==
  /\ pc = "exit"
  /\ printed # << >>
  /\ Last(printed).active >= 1
  /\ Last(printed).deprecated >= 2
  /\ script \in Scripts \/ \E j \in 1..Len(DEPRECATED_ALIASES) :
                             Has(TOOLS, DEPRECATED_ALIASES[j].name)

\* C2 (ordering law): in every returned document the entries 1..|TOOLS| are
\* the active tools in the insertion order of TOOLS, the entries after them
\* are the aliases in the insertion order of DEPRECATED_ALIASES, and so every
\* active entry precedes every deprecated entry.
C2_OrderingLaw ==
  \A j \in DOMAIN returned :
    LET r == returned[j]
        tools == ToolsOf(r)
    IN /\ Len(tools) >= NumActive(r)
       /\ \A k \in 1..NumActive(r) :
            /\ tools[k].name = Keys(r.TOOLS)[k]
            /\ "deprecated" \notin DOMAIN tools[k]
       /\ \A k \in 1..(Len(tools) - NumActive(r)) :
            /\ k <= NumAliases(r)
            /\ tools[NumActive(r) + k].name = Keys(r.DEPRECATED_ALIASES)[k]
            /\ "deprecated" \in DOMAIN tools[NumActive(r) + k]
       /\ \A a, d \in 1..Len(tools) :
            ("deprecated" \notin DOMAIN tools[a] /\ "deprecated" \in DOMAIN tools[d])
              => a < d

\* A document with at least two active tools and two aliases was returned.
C2_Witness ==
  \E j \in DOMAIN returned :
    /\ NumActive(returned[j]) >= 2
    /\ NumAliases(returned[j]) >= 2
    /\ Len(ToolsOf(returned[j])) >= 4

\* The names of a tools list are pairwise distinct.
DistinctNames(tools) ==
  \A a, b \in 1..Len(tools) : tools[a].name = tools[b].name => a = b

\* C3 (uniqueness): every document either generator script returns, and so
\* every file it writes, holds each name once.
C3_Uniqueness ==
  /\ \A j \in DOMAIN returned :
       returned[j].script \in Scripts => DistinctNames(ToolsOf(returned[j]))
  /\ (script \in Scripts /\ pc \in {"print", "exit"}) =>
       \A a, b \in 2..(Len(file.content) - 1) :
         file.content[a][1] = file.content[b][1] => a = b

\* Both scripts have written their documents (48 and 36 tools).
C3_Witness ==
  /\ pc = "exit"
  /\ runs = 2
  /\ \E j, k \in DOMAIN returned :
       /\ returned[j].script = "generate_manifest_v2"
       /\ returned[k].script = "generate_manifest_v2_approved"
       /\ Len(ToolsOf(returned[j])) = 48
       /\ Len(ToolsOf(returned[k])) = 36

\* C4 (redirect integrity): in every document either generator script
\* returns, the redirect_to of each alias entry is the name of an active
\* (not deprecated) entry of the same document.
C4_RedirectIntegrity ==
  \A j \in DOMAIN returned :
    returned[j].script \in Scripts =>
      LET tools == ToolsOf(returned[j]) IN
      \A d \in 1..Len(tools) :
        "redirect_to" \in DOMAIN tools[d] =>
          \E a \in 1..Len(tools) :
            /\ "deprecated" \notin DOMAIN tools[a]
            /\ tools[a].name = tools[d].redirect_to

\* A script returned a document in which two aliases redirect to one tool.
C4_Witness ==
  \E j \in DOMAIN returned :
    /\ returned[j].script \in Scripts
    /\ \E d, e \in 1..Len(ToolsOf(returned[j])) :
         /\ d # e
         /\ "redirect_to" \in DOMAIN ToolsOf(returned[j])[d]
         /\ "redirect_to" \in DOMAIN ToolsOf(returned[j])[e]
         /\ ToolsOf(returned[j])[d].redirect_to = ToolsOf(returned[j])[e].redirect_to

\* A name is a key of both registries (a dict cannot hold a key twice).
DuplicateName(T, A) == \E j \in 1..Len(A) : Has(T, A[j].name)

\* Some alias redirects to a name that is no key of the active registry.
DanglingRedirect(T, A) == \E j \in 1..Len(A) : ~Has(T, A[j].spec.redirect_to)

\* C5 (DuplicateNameError): generate_manifest returns no document for
\* registries that share a name. The code checks nothing and returns one.
C5_DuplicateNameRejected ==
  \A j \in DOMAIN returned :
    ~DuplicateName(returned[j].TOOLS, returned[j].DEPRECATED_ALIASES)

\* C6 (DanglingRedirectError): for registries with a dangling redirect_to
\* generate_manifest returns no document and the run leaves the output file
\* alone. The code checks nothing, returns a document and writes it.
C6_DanglingRedirectRejected ==
  DanglingRedirect(TOOLS, DEPRECATED_ALIASES) =>
    /\ \A j \in DOMAIN returned : returned[j].run # runs
    /\ file = fileAtStart

\* C7 (no partial output): a run over registries that fail validation leaves
\* the file as it was and does not end with status 0; the file is touched
\* only once generate_manifest has returned; and a process that has ended
\* leaves the file as it was or holding its complete document.
C7_NoPartialOutput ==
  /\ (DuplicateName(TOOLS, DEPRECATED_ALIASES) \/ DanglingRedirect(TOOLS, DEPRECATED_ALIASES))
       => (file = fileAtStart /\ status # "exit 0")
  /\ file # fileAtStart => \E j \in DOMAIN returned : returned[j].run = runs
  /\ status # "running" =>
       \/ file = fileAtStart
       \/ file.exists /\ file.content = JsonChunks(Last(returned).manifest)

\* C8 (flag correctness): in every returned document an active entry has no
\* redirect_to and no deprecated field (or a false one), an alias entry has
\* deprecated = TRUE and a non-empty redirect_to (the one of its registry
\* item), and redirect_to occurs exactly on the entries flagged deprecated.
C8_FlagCorrectness ==
  \A j \in DOMAIN returned :
    LET r == returned[j]
        tools == ToolsOf(r)
    IN \A k \in 1..Len(tools) :
         /\ k <= NumActive(r) =>
              /\ "redirect_to" \notin DOMAIN tools[k]
              /\ "deprecated" \in DOMAIN tools[k] => tools[k].deprecated = FALSE
         /\ k > NumActive(r) =>
              /\ "deprecated" \in DOMAIN tools[k]
              /\ tools[k].deprecated = TRUE
              /\ "redirect_to" \in DOMAIN tools[k]
              /\ tools[k].redirect_to # ""
              /\ tools[k].redirect_to
                   = r.DEPRECATED_ALIASES[k - NumActive(r)].spec.redirect_to
         /\ "redirect_to" \in DOMAIN tools[k]
              <=> ("deprecated" \in DOMAIN tools[k] /\ tools[k].deprecated = TRUE)

\* A document with active tools and aliases was returned and written.
C8_Witness ==
  /\ pc = "exit"
  /\ NumActive(Last(returned)) >= 1
  /\ NumAliases(Last(returned)) >= 1
  /\ Len(ToolsOf(Last(returned))) >= 2

\* The JSON object of the k-th tool in the written file, whether it has a
\* member named key, and whether that member has value v.
ToolObject(k) == file.content[k + 1]
HasMember(obj, key) == \E m \in 1..Len(obj) : obj[m][1] = key
MemberIs(obj, key, v) == \E m \in 1..Len(obj) : obj[m][1] = key /\ obj[m][2] = v

\* The run has closed the file it wrote.
Written == pc \in {"print", "exit"}

\* C9 as stated: every serialized entry has a deprecated member, false on an
\* active tool and true on an alias. Active tools are written without it.
C9_EveryEntryHasDeprecatedFlag ==
  Written =>
    \A k \in 1..(Len(file.content) - 2) :
      /\ HasMember(ToolObject(k), "deprecated")
      /\ MemberIs(ToolObject(k), "deprecated", k > Len(TOOLS))

\* C9 as amended: only the alias entries are serialized with a deprecated
\* member, and it is true; an active tool entry is serialized without one.
C9_DeprecatedFlagOnlyOnAliases ==
  Written =>
    /\ Len(file.content) = Len(TOOLS) + Len(DEPRECATED_ALIASES) + 2
    /\ \A k \in 1..(Len(file.content) - 2) :
         IF k <= Len(TOOLS)
         THEN ~HasMember(ToolObject(k), "deprecated")
         ELSE MemberIs(ToolObject(k), "deprecated", TRUE)

\* A file with active tools and aliases has been written.
C9_Witness ==
  /\ pc = "exit"
  /\ Len(TOOLS) >= 1
  /\ Len(DEPRECATED_ALIASES) >= 1
  /\ Len(file.content) = Len(TOOLS) + Len(DEPRECATED_ALIASES) + 2

\* Two logged calls read the same registries.
SameRegistries(r, q) ==
  r.TOOLS = q.TOOLS /\ r.DEPRECATED_ALIASES = q.DEPRECATED_ALIASES

\* C10 (determinism): two calls over the same registries, in one process or
\* in two, return equal documents (metadata and tools, entry by entry), and a
\* run that follows a run over the same registries rewrites the file with the
\* content it found.
C10_Determinism ==
  /\ \A j, k \in DOMAIN returned :
       SameRegistries(returned[j], returned[k])
         => returned[j].manifest = returned[k].manifest
  /\ ( /\ Written
       /\ \E j \in DOMAIN returned :
            /\ returned[j].run = runs - 1
            /\ SameRegistries(returned[j], Last(returned)) )
       => file = fileAtStart

\* The same registries (two tools, two aliases or more) were compiled twice:
\* by one importing process, or by two runs of which the second has written.
C10_Witness ==
  \E j, k \in DOMAIN returned :
    /\ j < k
    /\ SameRegistries(returned[j], returned[k])
    /\ Len(ToolsOf(returned[k])) >= 4
    /\ \/ returned[j].run = returned[k].run
       \/ returned[j].run # returned[k].run /\ pc = "exit"

\* C11: each active entry of a returned document carries the name of its
\* registry item and the category, the description and the whole
\* input_schema registered under that name, and nothing else.
C11_ActiveEntriesUnchanged ==
  \A j \in DOMAIN returned :
    LET r == returned[j] IN
    \A k \in 1..NumActive(r) :
      LET e == ToolsOf(r)[k]
          item == r.TOOLS[k]
      IN /\ DOMAIN e = {"name", "category", "description", "input_schema"}
         /\ e.name = item.name
         /\ e.category = item.spec.category
         /\ e.description = item.spec.description
         /\ e.input_schema = item.spec.input_schema

\* A document was returned whose active entry declares parameters.
C11_Witness ==
  \E j \in DOMAIN returned :
    /\ NumActive(returned[j]) >= 2
    /\ \E k \in 1..NumActive(returned[j]) :
         ToolsOf(returned[j])[k].input_schema.properties # << >>

\* The empty-object schema of an alias entry.
PlaceholderSchema == [type |-> "object", properties |-> << >>]

\* C12: each alias entry of a returned document carries the empty-object
\* schema (no properties, no required list), whatever the schema of the tool
\* it redirects to, and the name, category, description and redirect_to of
\* its registry item.
C12_AliasEntriesPlaceholder ==
  \A j \in DOMAIN returned :
    LET r == returned[j] IN
    \A k \in 1..NumAliases(r) :
      LET e == ToolsOf(r)[NumActive(r) + k]
          item == r.DEPRECATED_ALIASES[k]
      IN /\ e.input_schema = PlaceholderSchema
         /\ "required" \notin DOMAIN e.input_schema
         /\ e.name = item.name
         /\ e.category = item.spec.category
         /\ e.description = item.spec.description
         /\ e.redirect_to = item.spec.redirect_to

\* A document was returned with an alias of a tool that declares parameters.
C12_Witness ==
  \E j \in DOMAIN returned :
    \E k \in 1..NumAliases(returned[j]), a \in 1..NumActive(returned[j]) :
      /\ returned[j].DEPRECATED_ALIASES[k].spec.redirect_to = returned[j].TOOLS[a].name
      /\ returned[j].TOOLS[a].spec.input_schema.properties # << >>

\* C13 (no side effects): a step of a call of generate_manifest, from its
\* entry to its return, leaves both registries, the file, the file object and
\* the output as they are; the file changes only in the __main__ block of a
\* script, after the call.
C13_NoSideEffects ==
  [][ /\ (stack # << >> \/ stack' # << >>) =>
           /\ TOOLS' = TOOLS
           /\ DEPRECATED_ALIASES' = DEPRECATED_ALIASES
           /\ file' = file
           /\ f' = f
           /\ printed' = printed
      /\ file' # file => (mode = "main" /\ stack = << >> /\ pc \in {"called", "dump"})
    ]_vars

\* A call over non-empty registries has returned and nothing was written.
C13_Witness ==
  /\ pc = "called"
  /\ returned # << >>
  /\ Len(TOOLS) >= 2
  /\ Len(DEPRECATED_ALIASES) >= 2
  /\ file = fileAtStart
  /\ Last(returned).TOOLS = TOOLS

\* C15 (regenerated on every run): a call starts from the fresh manifest with
\* an empty tools list, so a document returned by a second or later call of a
\* process has |TOOLS| + |DEPRECATED_ALIASES| entries like the first, and the
\* file a run has written holds that run's document whatever it held before.
C15_FullyRegenerated ==
  /\ (pc = "tools_loop" /\ frame.it = 1) => frame.manifest = NewManifest
  /\ \A j, k \in DOMAIN returned :
       (j < k /\ returned[j].run = returned[k].run) =>
         Len(ToolsOf(returned[k])) = NumActive(returned[k]) + NumAliases(returned[k])
  /\ Written =>
       file = [exists |-> TRUE, content |-> JsonChunks(Last(returned).manifest)]

\* A run has written its document over a file that held something else.
C15_Witness ==
  /\ pc = "exit"
  /\ fileAtStart.exists
  /\ fileAtStart # file
  /\ Len(ToolsOf(Last(returned))) >= 2

\* The "required" list of a schema names declared properties only.
RequiredDeclared(schema) ==
  "required" \in DOMAIN schema =>
    \A q \in 1..Len(schema.required) :
      \E p \in 1..Len(schema.properties) :
        schema.properties[p].name = schema.required[q]

\* C16 (SchemaShapeError): no document is returned with an active entry whose
\* schema requires a parameter that its properties lack. The code checks
\* nothing and returns such a document.
C16_SchemaShapeRejected ==
  \A j \in DOMAIN returned :
    \A k \in 1..NumActive(returned[j]) :
      RequiredDeclared(ToolsOf(returned[j])[k].input_schema)

\* ------------------------------------------------------------------- C17
\* The operations deploy_migration has run, by name, in order.
RanOps == [i \in 1..Len(ran) |-> ran[i].op]

DeploySteps == << "open", "bash source .env", "supabase db dump", "psql" >>

PsqlInvoked == \E i \in 1..Len(ran) : ran[i].op = "psql"

\* C17: deploy_migration runs read file, credentials, DB URL, psql in that
\* order; psql is invoked only after the file was read, the credentials
\* command printed at least two lines and the DB-URL command returned 0; with
\* fewer than two lines of credentials, or a failed DB-URL command, the script
\* is at exit status 1 and psql was never invoked.
C17_LinearSequence ==
  script = "deploy_migration" =>
    /\ Len(ran) <= Len(DeploySteps)
    /\ RanOps = SubSeq(DeploySteps, 1, Len(ran))
    /\ PsqlInvoked =>
         /\ ~ran[1].raised
         /\ Len(ran[2].stdout) >= 2
         /\ Len(locals.lines) >= 2
         /\ ~ran[3].raised
         /\ ran[3].returncode = 0
    /\ (Len(ran) >= 2 /\ Len(ran[2].stdout) < 2) => (status = "exit 1" /\ ~PsqlInvoked)
    /\ (Len(ran) >= 3 /\ ran[3].returncode # 0) => (status = "exit 1" /\ ~PsqlInvoked)

\* The DB-URL command has failed after good credentials, and the script has
\* stopped before psql.
C17_Witness ==
  /\ script = "deploy_migration"
  /\ Len(ran) = 3
  /\ Len(ran[2].stdout) >= 2
  /\ ran[3].returncode # 0
  /\ status = "exit 1"
  /\ pc = "deploy_exit"

\* ------------------------------------------------------------------- C18
Printed(msg) == \E i \in 1..Len(out) : out[i] = msg

\* C18: the success messages are printed, and the process ends with status 0,
\* only if psql returned 0; when psql returned a non-zero code the failure and
\* the manual instructions are printed and the process ends with status 1.
C18_ReportsOutcome ==
  script = "deploy_migration" =>
    /\ (Printed("Migration executed successfully") \/ Printed("Database migration complete")
          \/ status = "exit 0")
         => /\ PsqlInvoked
            /\ ~ran[4].raised
            /\ ran[4].returncode = 0
    /\ (PsqlInvoked /\ ~ran[4].raised /\ ran[4].returncode # 0)
         => /\ status = "exit 1"
            /\ Printed("Migration failed")
            /\ \A i \in 1..Len(ManualInstructions) : Printed(ManualInstructions[i])
            /\ ~Printed("Migration executed successfully")

\* psql has failed and the failure has been reported.
C18_Witness ==
  /\ script = "deploy_migration"
  /\ PsqlInvoked
  /\ ran[4].returncode = 2
  /\ status = "exit 1"
  /\ Printed("Migration failed")

\* ------------------------------------------------------------------- C19
\* The POSTs of the log, in order.
RECURSIVE Posts(_)
Posts(log) ==
  IF log = << >> THEN << >>
  ELSE IF Head(log).op = "post" THEN << Head(log) >> \o Posts(Tail(log))
  ELSE Posts(Tail(log))

SomePostRefused ==
  \E n \in 1..Len(Posts(ran)) :
    /\ ~Posts(ran)[n].raised
    /\ Posts(ran)[n].status_code \notin OkStatusCodes

\* C19: when some statement's POST was answered with a status other than 200,
\* 201 or 204, run_migrations does not end with the completion report and
\* exit status 0.
C19_FailureReported ==
  (script = "run_migrations" /\ SomePostRefused) =>
    ~(status = "exit 0" /\ Printed("Migration execution complete"))

\* ------------------------------------------------------------------- C20
\* The statements the files read so far hold, as (file, index), in order.
RECURSIVE ReadStatements(_)
ReadStatements(log) ==
  IF log = << >> THEN << >>
  ELSE IF Head(log).op = "read"
       THEN [k \in 1..Head(log).n |-> [file |-> Head(log).file, i |-> k]]
            \o ReadStatements(Tail(log))
       ELSE ReadStatements(Tail(log))

PostedStatements ==
  [n \in 1..Len(Posts(ran)) |->
     [file |-> Posts(ran)[n].file, i |-> Posts(ran)[n].i]]

PostedAtMostOnce ==
  \A m, n \in 1..Len(Posts(ran)) :
    (Posts(ran)[m].file = Posts(ran)[n].file /\ Posts(ran)[m].i = Posts(ran)[n].i) => m = n

\* C20: every statement is POSTed at most once; a POST that was answered, with
\* whatever status, is logged once and followed by the next statement (the
\* loop goes on, and nothing already sent is undone); and a run that ends
\* normally has sent every statement of every file, once each, in order.
C20_NoRetryNoRecovery ==
  [][ script = "run_migrations" =>
        /\ Len(ran') >= Len(ran)
        /\ SubSeq(ran', 1, Len(ran)) = ran
        /\ PostedAtMostOnce'
        /\ (pc = "migrate_post" /\ locals.i <= Len(locals.statements)
              /\ ~ran'[Len(ran')].raised)
             => /\ Len(ran') = Len(ran) + 1
                /\ ran'[Len(ran')].op = "post"
                /\ ran'[Len(ran')].file = locals.migration
                /\ ran'[Len(ran')].i = locals.i
                /\ locals' = [locals EXCEPT !.i = locals.i + 1]
                /\ pc' = "migrate_post"
                /\ status' = "running"
        /\ status' = "exit 0" =>
             /\ PostedStatements' = ReadStatements(ran')
             /\ Len(ran') - Len(Posts(ran')) = Len(migrations) ]_vars

\* A run has ended normally although the first statement of the first file
\* was refused: the second statement of that file and a statement of the
\* second file were sent after it.
C20_Witness ==
  /\ script = "run_migrations"
  /\ status = "exit 0"
  /\ Len(Posts(ran)) = 3
  /\ Posts(ran)[1].status_code = 500
  /\ Posts(ran)[2].file = 1
  /\ Posts(ran)[2].i = 2
  /\ Posts(ran)[3].file = 2

\* ------------------------------------------------------------------- C14
AllClosed == Len(closers) = Cardinality(Procs)

\* C14: when the concurrent generator processes have all closed the file,
\* it holds exactly the complete document of the last writer: the document
\* of one of the processes, whichever counts as the last, and never a
\* mixture of documents or a truncated one.
C14_LastWriterWins ==
  (pc = "concurrent" /\ AllClosed) =>
    \E p \in Procs : file.content = Document(p)

\* ------------------------------------------------------------------- C21
\* The categories of a list of entries (or of registry items), in order.
Categories(tools) == [k \in 1..Len(tools) |-> tools[k].category]
ItemCategories(d) == [k \in 1..Len(d) |-> d[k].spec.category]

\* Equal categories stand next to each other: an entry that has a later entry
\* of its category has its successor in that category, so that between two
\* entries of one category there is no entry of another.
Contiguous(cats) ==
  \A a, c \in 1..Len(cats) : (a < c /\ cats[a] = cats[c]) => cats[a + 1] = cats[a]

\* C21: the categories of the emitted entries are those of the registry items
\* in insertion order (nothing is sorted or regrouped); and in the documents
\* of the two scripts the entries of one category are contiguous, every alias
\* entry has category "Deprecated" and no active entry has.
C21_CategoryGroups ==
  \A j \in DOMAIN returned :
    LET r == returned[j]
        cats == Categories(ToolsOf(r))
    IN /\ cats = ItemCategories(r.TOOLS) \o ItemCategories(r.DEPRECATED_ALIASES)
       /\ r.script \in Scripts =>
            /\ Contiguous(cats)
            /\ \A k \in 1..Len(cats) : (cats[k] = "Deprecated") <=> (k > NumActive(r))

\* A script has returned its document: several categories of several entries
\* each, and the aliases after them.
C21_Witness ==
  \E j \in DOMAIN returned :
    LET cats == Categories(ToolsOf(returned[j])) IN
    /\ returned[j].script \in Scripts
    /\ Len(cats) > NumActive(returned[j])
    /\ \E a, b \in 1..NumActive(returned[j]) :
         /\ cats[a] = cats[a + 1]
         /\ cats[b] = cats[b + 1]
         /\ cats[a] # cats[b]

\* ------------------------------------------------------------------- C22
\* The alias items of a registry that redirect to the target of an earlier one.
SharedTargets(A) ==
  { k \in 1..Len(A) : \E h \in 1..(k - 1) : A[h].spec.redirect_to = A[k].spec.redirect_to }

\* C22: generate_manifest validates nothing: no call ends a generator process
\* with a failure, a call in the alias loop has appended one entry for every
\* alias item it has passed, and every returned document has one entry per
\* alias item, with the redirect_to of that item, also when several items
\* share a target.
C22_NoValidation ==
  /\ (script \in Scripts \/ script = "generate_manifest_any") => status # "exit 1"
  /\ (pc = "aliases_loop" /\ frame.it <= Len(DEPRECATED_ALIASES)) =>
       Len(frame.manifest.tools) = Len(TOOLS) + frame.it - 1
  /\ \A j \in DOMAIN returned :
       LET r == returned[j] IN
       /\ Len(ToolsOf(r)) - NumActive(r) = NumAliases(r)
       /\ \A k \in 1..NumAliases(r) :
            /\ ToolsOf(r)[NumActive(r) + k].name = r.DEPRECATED_ALIASES[k].name
            /\ ToolsOf(r)[NumActive(r) + k].redirect_to = r.DEPRECATED_ALIASES[k].spec.redirect_to

\* A document was returned for a registry in which two aliases redirect to
\* the same target.
C22_Witness ==
  \E j \in DOMAIN returned :
    /\ SharedTargets(returned[j].DEPRECATED_ALIASES) # {}
    /\ returned[j].script = "generate_manifest_any"

\* ------------------------------------------------------------------- C23
\* The entries of a document that are flagged deprecated.
DeprecatedEntries(tools) ==
  { k \in 1..Len(tools) : "deprecated" \in DOMAIN tools[k] /\ tools[k].deprecated }

\* C23: the approved generator returns 24 active and 12 deprecated entries, 36
\* in all, and the original generator 30 and 18, 48 in all; the counts each
\* script prints are these.
C23_EntryCounts ==
  /\ \A j \in DOMAIN returned :
       LET r == returned[j]
           dep == Cardinality(DeprecatedEntries(ToolsOf(r)))
       IN /\ r.script = "generate_manifest_v2_approved" =>
               (dep = 12 /\ Len(ToolsOf(r)) - dep = 24 /\ Len(ToolsOf(r)) = 36)
          /\ r.script = "generate_manifest_v2" =>
               (dep = 18 /\ Len(ToolsOf(r)) - dep = 30 /\ Len(ToolsOf(r)) = 48)
  /\ (pc = "exit" /\ printed # << >> /\ script = "generate_manifest_v2_approved") =>
       Last(printed) = [generated |-> 36, active |-> 24, deprecated |-> 12, total |-> 36]
  /\ (pc = "exit" /\ printed # << >> /\ script = "generate_manifest_v2") =>
       Last(printed) = [generated |-> 48, active |-> 30, deprecated |-> 18, total |-> 48]

\* Both scripts have run to their end, one after the other.
C23_Witness ==
  /\ pc = "exit"
  /\ Len(returned) = 2
  /\ returned[1].script = "generate_manifest_v2"
  /\ returned[2].script = "generate_manifest_v2_approved"
  /\ Len(printed) = 2

\* ------------------------------------------------------------------- C25
\* The document a script writes: that of its literal registries.
ScriptDocument(name) ==
  IF name = "generate_manifest_v2"
  THEN JsonChunks(generate_manifest(TOOLS_v2, DEPRECATED_ALIASES_v2))
  ELSE JsonChunks(generate_manifest(TOOLS_v2_approved, DEPRECATED_ALIASES_v2_approved))

\* C25: after any sequence of complete runs of the two scripts against the
\* one destination, the file holds exactly the document of the script that
\* ran last: nothing of what an earlier run wrote, or of what the file held
\* before, is left in it or after it.
C25_LastRunWins ==
  (script \in Scripts /\ mode = "main" /\ pc = "exit") =>
    /\ file.exists
    /\ file.content = ScriptDocument(script)
    /\ Len(file.content) = Len(TOOLS) + Len(DEPRECATED_ALIASES) + 2

\* The approved script has run to its end after the original script, whose
\* document is the longer one.
C25_Witness ==
  /\ pc = "exit"
  /\ runs = 2
  /\ Len(returned) = 2
  /\ returned[1].script = "generate_manifest_v2"
  /\ script = "generate_manifest_v2_approved"
  /\ Len(file.content) < Len(JsonChunks(returned[1].manifest))

\* ------------------------------------------------------------------- C26
KeyMissing ==
  locals.environ.SUPABASE_SERVICE_ROLE_KEY = << >>
    \/ locals.environ.SUPABASE_SERVICE_ROLE_KEY = << "" >>

\* C26: once run_migrations has looked at its environment, an unset or empty
\* SUPABASE_SERVICE_ROLE_KEY means exit status 1 with no file read and no
\* request sent; with a key, an unset SUPABASE_URL does not stop the script,
\* which goes on to its files with the default URL.
C26_KeyRequired ==
  (script = "run_migrations" /\ pc # "migrate_start") =>
    /\ KeyMissing =>
         /\ status = "exit 1"
         /\ pc = "migrate_exit"
         /\ ran = << >>
         /\ Printed("Error: SUPABASE_SERVICE_ROLE_KEY not set")
    /\ (~KeyMissing /\ locals.environ.SUPABASE_URL = << >>) =>
         /\ locals.SUPABASE_URL = DefaultUrl
         /\ Printed("Running database migrations")
         /\ (ran = << >> => (status = "running" /\ pc = "migrate_file"))

\* The script has stopped for an empty key.
C26_Witness ==
  /\ script = "run_migrations"
  /\ pc = "migrate_exit"
  /\ locals.environ.SUPABASE_SERVICE_ROLE_KEY = << "" >>
  /\ status = "exit 1"

\* ------------------------------------------------------------------- C27
\* The number of files read, and of requests sent since the last read, in the
\* first n entries of the log.
ReadsIn(n) == Cardinality({ a \in 1..n : ran[a].op = "read" })
PostsSinceRead(n) ==
  Cardinality({ a \in 1..n : ran[a].op = "post"
                             /\ \A b \in a..n : ran[b].op # "read" })

\* C27: the files are read in the order of the migrations list, the
\* statements of a file are sent in the order of its statements list,
\* starting with the first, and a request is always for the file read last:
\* once the second file is read nothing of the first is sent.
C27_FixedOrder ==
  script = "run_migrations" =>
    \A n \in 1..Len(ran) :
      /\ ran[n].op = "read" =>
           /\ ran[n].file = ReadsIn(n)
           /\ ran[n].file <= Len(migrations)
      /\ ran[n].op = "post" =>
           /\ ReadsIn(n) >= 1
           /\ ran[n].file = ReadsIn(n)
           /\ ran[n].i = PostsSinceRead(n)
      /\ \A a \in 1..n : ran[a].file <= ran[n].file

\* A run has ended after two requests for the first file and one for the
\* second, all accepted.
C27_Witness ==
  /\ script = "run_migrations"
  /\ status = "exit 0"
  /\ Len(ran) = 5
  /\ ran[2].op = "post" /\ ran[3].op = "post" /\ ran[4].op = "read" /\ ran[5].op = "post"
  /\ \A n \in {2, 3, 5} : ran[n].status_code \in OkStatusCodes

\* ------------------------------------------------------------------- C28
\* The fragments of a text, each named by the position before its first
\* character (0, or the position of a ';'), with the position after its last.
FragmentStarts(text) == {0} \cup { j \in 1..Len(text) : text[j] = ";" }
FragmentEnd(text, s) ==
  IF \E j \in (s + 1)..Len(text) : text[j] = ";"
  THEN CHOOSE j \in (s + 1)..Len(text) :
         text[j] = ";" /\ \A h \in (s + 1)..(j - 1) : text[h] # ";"
  ELSE Len(text) + 1

\* The positions of a fragment that hold no whitespace, and the fragment
\* trimmed: from the first of them to the last.
Inked(text, s) == { j \in (s + 1)..(FragmentEnd(text, s) - 1) : text[j] # " " }
Min(S) == CHOOSE x \in S : \A y \in S : x <= y
Max(S) == CHOOSE x \in S : \A y \in S : x >= y
Trimmed(text, s) == SubSeq(text, Min(Inked(text, s)), Max(Inked(text, s)))

\* A fragment is a comment when, trimmed, it begins with "--".
IsComment(text, s) ==
  LET t == Trimmed(text, s) IN Len(t) >= 2 /\ t[1] = "-" /\ t[2] = "-"

\* The fragments that are sent: not blank and no comment.
Kept(text) ==
  { s \in FragmentStarts(text) : Inked(text, s) # {} /\ ~IsComment(text, s) }

\* The n-th kept fragment in the order of the text.
NthKept(text, n) ==
  CHOOSE s \in Kept(text) : Cardinality({ t \in Kept(text) : t < s }) = n - 1

\* C28: the requests for a file carry, in the order of the text, exactly the
\* fragments between the ';' of the text that are not blank and do not begin
\* with "--" once trimmed, each once and trimmed; a fragment that begins with
\* "--" is not sent at all, whatever follows the dashes, and no empty
\* statement is sent.
C28_SentFragments ==
  pc \in {"split_post", "split_done"} =>
    /\ Len(locals.statements) = Cardinality(Kept(locals.sql))
    /\ Len(ran) = locals.i - 1
    /\ Len(ran) <= Len(locals.statements)
    /\ pc = "split_done" => Len(ran) = Cardinality(Kept(locals.sql))
    /\ \A n \in 1..Len(ran) :
         /\ ran[n].i = n
         /\ ran[n].query = Trimmed(locals.sql, NthKept(locals.sql, n))
         /\ ran[n].query # << >>
         /\ ran[n].query[1] # " "
         /\ ran[n].query[Len(ran[n].query)] # " "
         /\ ~(Len(ran[n].query) >= 2 /\ ran[n].query[1] = "-" /\ ran[n].query[2] = "-")

\* A file whose text has SQL after two dashes and no ';' between them is
\* through, and nothing was sent.
C28_Witness ==
  /\ pc = "split_done"
  /\ locals.sql = << "-", "-", "s" >>
  /\ ran = << >>

\* ------------------------------------------------------------------- C24
\* The input_schema of entry j of the k-th returned document, and of the j-th
\* item of TOOLS, as they are now.
SchemaOf(k, j) == locals.heap[returned[k].tools[j].input_schema]
ToolsSchema(j) == locals.heap[j]

\* The entries of the returned documents, as (document, entry).
Entries == { e \in (1..Len(returned)) \X (1..(Len(TOOLS) + Len(DEPRECATED_ALIASES))) : TRUE }

\* C24: an active entry holds the input_schema object of its TOOLS item, in
\* every document, and an alias entry an object nothing else holds; so a
\* change a caller makes through an active entry is a change of TOOLS, seen
\* in every document returned before and after it, while a change made
\* through an alias entry changes that entry of that document only.
C24_SharedSchemas ==
  [][ script = "generate_manifest_any" /\ mode = "import" /\ pc = "imported" =>
        /\ \A e \in Entries' :
             IF e[2] <= Len(TOOLS)
             THEN /\ returned'[e[1]].tools[e[2]].input_schema = e[2]
                  /\ SchemaOf(e[1], e[2])' = ToolsSchema(e[2])'
             ELSE /\ returned'[e[1]].tools[e[2]].input_schema > Len(TOOLS)
                  /\ \A d \in Entries' :
                       returned'[d[1]].tools[d[2]].input_schema
                         = returned'[e[1]].tools[e[2]].input_schema => d = e
        /\ \A e \in Entries :
             SchemaOf(e[1], e[2])' # SchemaOf(e[1], e[2]) =>
               IF e[2] <= Len(TOOLS)
               THEN /\ ToolsSchema(e[2])' # ToolsSchema(e[2])
                    /\ \A k \in 1..Len(returned') :
                         SchemaOf(k, e[2])' = SchemaOf(e[1], e[2])'
               ELSE /\ \A j \in 1..Len(TOOLS) : ToolsSchema(j)' = ToolsSchema(j)
                    /\ \A d \in Entries \ {e} : SchemaOf(d[1], d[2])' = SchemaOf(d[1], d[2])
        /\ Len(returned') > Len(returned) =>
             \A j \in 1..Len(TOOLS) : locals'.heap[returned'[Len(returned')].tools[j].input_schema] = ToolsSchema(j) ]_vars

\* A caller got a document, changed the schema of an active entry and the
\* placeholder of the alias entry in it, and then got a second document: its
\* active entry has the change, which the TOOLS literal had not, and its
\* alias entry has not.
C24_Witness ==
  /\ pc = "imported"
  /\ Len(returned) = 2
  /\ Len(ran) = 2
  /\ ran[1].doc = 1 /\ ran[1].entry <= Len(TOOLS)
  /\ ran[2].doc = 1 /\ ran[2].entry > Len(TOOLS)
  /\ SchemaOf(1, ran[1].entry).type = "array"
  /\ SchemaOf(2, ran[1].entry).type = "array"
  /\ TOOLS[ran[1].entry].spec.input_schema.type = "object"
  /\ SchemaOf(1, ran[2].entry).type = "array"
  /\ SchemaOf(2, ran[2].entry).type = "object"

====
